---- MODULE Spec2Model ----
(***************************************************************************)
(* TaskFlow chat orchestration and image-attachment pipeline.              *)
(*                                                                         *)
(* Three specifications share the variables below:                         *)
(*   SpecPipe  the two image generation pipelines, one run at a time       *)
(*             (generateImageForAttachment and POST /api/generate-image);  *)
(*   SpecTool  one chat request executing tool calls one after another     *)
(*             (create_task, update_task, generate_image) against the      *)
(*             task store, with the attachment pipeline run inside them;   *)
(*   SpecLoop  the streamText round loop of POST /api/chat.                *)
(***************************************************************************)
EXTENDS Integers, Sequences, FiniteSets, TLC

\* null / undefined of a value that is otherwise a record.
Null == [null |-> TRUE]

\* No prompt (a variable not in use).
NoPrompt == ""

(***************************************************************************)
(* External image service: what one fetch of /v1/images/generations can    *)
(* answer.  kind "throw" is a rejected fetch (network failure, timeout);   *)
(* kind "http" is a non-2xx answer with a status and a body; kind "ok" is  *)
(* a 2xx answer whose data[0] may be missing (hasImg = FALSE) and whose    *)
(* b64_json has len characters (len = 0: missing or empty b64_json).       *)
(***************************************************************************)
Ceiling == 1400000

B64Lens == {0, 1, Ceiling - 1, Ceiling, Ceiling + 1}

HttpErrors ==
  { <<404, "other">>, <<403, "model_not_found">>, <<400, "Unknown parameter">>,
    <<401, "other">>, <<429, "other">> }

Resp(kind, status, body, hasImg, len) ==
  [kind |-> kind, status |-> status, body |-> body, hasImg |-> hasImg, len |-> len]

Responses ==
  {Resp("throw", 0, "other", FALSE, 0)}
    \cup {Resp("http", e[1], e[2], FALSE, 0) : e \in HttpErrors}
    \cup {Resp("ok", 200, "other", FALSE, 0)}
    \cup {Resp("ok", 200, "other", TRUE, n) : n \in B64Lens}

Prompts == {"cat", "logo"}

\* The three requests of generateImageForAttachment, in source order.
Candidates ==
  << [model |-> "gpt-image-1", format |-> "jpeg", mime |-> "image/jpeg", ext |-> "jpg"],
     [model |-> "gpt-image-1", format |-> "png-low", mime |-> "image/png", ext |-> "png"],
     [model |-> "dall-e-3", format |-> "b64_json", mime |-> "image/png", ext |-> "png"] >>

\* The models of POST /api/generate-image, in source order.
models == <<"gpt-image-1", "dall-e-3">>

VARIABLES
  apiKey,       \* process.env.OPENAI_API_KEY is set
  svc,          \* the answers the image service may give in this run
  ipc,          \* generateImageForAttachment: "idle", "a1", "a2", "a3", "ret"
  iprompt,      \* its prompt argument
  ireqs,        \* the requests it has issued so far, with their responses
  iresult,      \* its return value (an attachment or Null)
  gpc,          \* POST /api/generate-image: "idle", "loop", "done"
  gprompt,      \* the prompt of the request body
  gidx,         \* index of the model the for loop is at
  greqs,        \* the requests it has issued so far, with their responses
  gresponse,    \* the HTTP response it returned
  messages,     \* POST /api/chat: the messages of the request body
  chatImages,   \* closure constant: extractChatImages(messages)
  generatedImages,      \* closure variable of the request
  pendingImagePrompts,  \* closure variable of the request
  store,        \* the task store: id -> Task
  nextId,       \* the next fresh id / creation time
  ncalls,       \* tool calls executed so far in this request
  tpc,          \* position of the tool call in flight
  targs,        \* its arguments
  tatt,         \* create_task: attachments; update_task: newImages
  tmatch,       \* update_task: match
  tupdates,     \* update_task: updates
  texisting,    \* updateTask: existing
  twrites,      \* the store writes the call has attempted, with outcomes
  tresult,      \* what execute returned or threw
  lphase,       \* streamText: "AwaitingModel", "ExecutingFunctions", "Done"
  lsteps,       \* LLM rounds (steps) performed for the request
  lcalls,       \* the function calls of the latest round
  lresults,     \* the function results appended for them so far
  ltext,        \* the rounds so far have streamed some text to the caller
  requestedModel,       \* the `model` of the request body
  lmodel,       \* the model id the latest LLM round was asked of
  reqs,         \* concurrent POST /api/chat requests: each one's closure
  calls         \* concurrent handler executions: each one's locals

pipeVars == <<apiKey, svc, ipc, iprompt, ireqs, iresult>>
genVars == <<gpc, gprompt, gidx, greqs, gresponse>>
reqVars == <<messages, chatImages, generatedImages, pendingImagePrompts>>
storeVars == <<store, nextId>>
callVars == <<ncalls, tpc, targs, tatt, tmatch, tupdates, texisting, twrites, tresult>>
toolVars == <<reqVars, storeVars, callVars>>
loopVars == <<lphase, lsteps, lcalls, lresults, ltext, requestedModel, lmodel>>
raceVars == <<reqs, calls>>
vars == <<pipeVars, genVars, toolVars, loopVars, raceVars>>

(***************************************************************************)
(* POST /api/chat: the request's messages and the two extractors           *)
(***************************************************************************)
Absent == "undefined"        \* an optional argument that was not supplied
NullStr == "null"            \* a null string field of a stored Task

\* An optional title argument that was not supplied (titles are sequences of
\* characters, so that letter case can be folded).
NoTitle == <<"undefined">>

\* `attachments: null` of a stored Task (in place of a list of attachments).
NullAttachments ==
  << [name |-> <<"null">>, type |-> "null",
      dataUrl |-> [mime |-> "null", cand |-> 0, len |-> 0, url |-> "null"]] >>

Part(type, mediaType, url, toolName, state, success, prompt) ==
  [type |-> type, mediaType |-> mediaType, url |-> url, toolName |-> toolName,
   state |-> state, success |-> success, prompt |-> prompt]

TextPart == Part("text", Absent, Absent, Absent, Absent, FALSE, Absent)

FilePart(mediaType, url) == Part("file", mediaType, url, Absent, Absent, FALSE, Absent)

\* A tool part: type "tool-<name>", or type "dynamic-tool" with a toolName.
ToolPart(type, toolName, state, success, prompt) ==
  Part(type, Absent, Absent, toolName, state, success, prompt)

\* The message lists a request may carry (each message is its parts).
Histories ==
  { << <<TextPart>> >>,
    << <<TextPart, FilePart("image/png", "u1")>>, <<TextPart>>,
       <<TextPart, FilePart("image/jpeg", "u5")>> >>,
    << <<TextPart, FilePart("application/pdf", "u4")>>,
       <<ToolPart("tool-generate_image", Absent, "output-available", TRUE, "cat")>>,
       <<TextPart, ToolPart("dynamic-tool", "generate_image", "output-available", TRUE, "logo"),
         ToolPart("tool-create_task", Absent, "output-available", TRUE, Absent),
         ToolPart("dynamic-tool", "update_task", "output-available", TRUE, Absent)>>,
       <<TextPart>> >>,
    << <<FilePart("application/pdf", "u2"), FilePart("image/png", Absent),
         FilePart("image/jpeg", "u3")>>,
       <<ToolPart("tool-generate_image", Absent, "output-available", TRUE, "cat"),
         ToolPart("tool-generate_image", Absent, "output-error", FALSE, "logo"),
         ToolPart("tool-generate_image", Absent, "output-available", FALSE, "logo")>>,
       <<TextPart>> >> }

Flatten_last(msgs) == IF msgs = <<>> THEN <<>> ELSE msgs[Len(msgs)]

RECURSIVE Flatten(_)
Flatten(msgs) == IF msgs = <<>> THEN <<>> ELSE Head(msgs) \o Flatten(Tail(msgs))

\* fp.mediaType?.startsWith("image/")
IsImageType_any(mediaType) == TRUE

IsImageType(mediaType) == mediaType \in {"image/png", "image/jpeg"}

\* mediaType.split("/")[1]
SubType(mediaType) ==
  CASE mediaType = "image/png" -> "png"
    [] mediaType = "image/jpeg" -> "jpeg"
    [] OTHER -> "png"

ChatAttachment_png(fp) ==
  [name |-> <<"image", SubType(fp.mediaType), "">>,
   type |-> "image/png",
   dataUrl |-> [mime |-> fp.mediaType, cand |-> 0, len |-> 0, url |-> fp.url]]

ChatAttachment(fp) ==
  [name |-> <<"image", SubType(fp.mediaType), "">>,
   type |-> fp.mediaType,
   dataUrl |-> [mime |-> fp.mediaType, cand |-> 0, len |-> 0, url |-> fp.url]]

IsChatImage(part) ==
  part.type = "file" /\ IsImageType(part.mediaType) /\ part.url # Absent

RECURSIVE MapChat(_)
MapChat(parts) ==
  IF parts = <<>> THEN <<>> ELSE <<ChatAttachment(Head(parts))>> \o MapChat(Tail(parts))

extractChatImages(msgs) == MapChat(SelectSeq(Flatten(msgs), IsChatImage))

IsGeneratedPrompt(part) ==
  /\ (part.type = "tool-generate_image" \/ part.toolName = "generate_image")
  /\ part.state = "output-available"
  /\ part.success = TRUE
  /\ part.prompt # Absent

RECURSIVE MapPrompt(_)
MapPrompt(parts) ==
  IF parts = <<>> THEN <<>> ELSE <<Head(parts).prompt>> \o MapPrompt(Tail(parts))

extractGeneratedImagePrompts(msgs) == MapPrompt(SelectSeq(Flatten(msgs), IsGeneratedPrompt))

(***************************************************************************)
(* Task store (lib/db.ts).  createdAt is the creation counter; updatedAt   *)
(* is not modelled.                                                        *)
(***************************************************************************)
MaxTasks == 2
MaxCalls == 2

\* Titles as character sequences, so that the search is computed.
Titles == { <<"P", "e", "t">>, <<"F", "i", "x">> }
Searches == { <<"p", "E">>, <<"z">> }

ToLowerChar(c) ==
  CASE c = "P" -> "p" [] c = "E" -> "e" [] c = "F" -> "f" [] c = "T" -> "t"
    [] c = "I" -> "i" [] c = "X" -> "x" [] c = "Z" -> "z" [] OTHER -> c

toLowerCase(s) == [i \in 1..Len(s) |-> ToLowerChar(s[i])]

includes(s, sub) ==
  \E i \in 1..(Len(s) - Len(sub) + 1) : SubSeq(s, i, i + Len(sub) - 1) = sub

Tomorrow == "2026-11-02"

\* db.parseDate on the due dates used here.
parseDate(s) == IF s = "tomorrow" THEN Tomorrow ELSE s

\* What one store write (Store.set) may answer: "ok" or the thrown error.
StoreErrors == {"entity_too_large", "2mb", "other"}
StoreOutcomes == {"ok"} \cup StoreErrors

\* errStr.includes("entity_too_large") || errStr.includes("2mb")
IsTooLarge_any(err) == err \in StoreErrors

IsTooLarge(err) == err \in {"entity_too_large", "2mb"}

\* The Task built by createTask.
NewTask(id, input) ==
  [id |-> id,
   title |-> input.title,
   description |-> IF input.description = Absent THEN NullStr ELSE input.description,
   priority |-> IF input.priority = Absent THEN "medium" ELSE input.priority,
   status |-> "todo",
   dueDate |-> IF input.dueDate = Absent THEN NullStr ELSE input.dueDate,
   attachments |-> IF input.hasAttachments THEN input.attachments ELSE <<>>,
   createdAt |-> id]

MergeTask_resets(existing, updates) ==
  [id |-> existing.id,
   title |-> IF updates.title = NoTitle THEN existing.title ELSE updates.title,
   description |-> IF updates.description = Absent THEN existing.description ELSE updates.description,
   priority |-> IF updates.priority = Absent THEN "medium" ELSE updates.priority,
   status |-> IF updates.status = Absent THEN existing.status ELSE updates.status,
   dueDate |-> IF updates.dueDate = Absent THEN existing.dueDate ELSE updates.dueDate,
   attachments |-> IF updates.hasAttachments THEN updates.attachments ELSE existing.attachments,
   createdAt |-> existing.createdAt]

\* { ...existing, ...updates } of updateTask.
MergeTask(existing, updates) ==
  [id |-> existing.id,
   title |-> IF updates.title = NoTitle THEN existing.title ELSE updates.title,
   description |-> IF updates.description = Absent THEN existing.description ELSE updates.description,
   priority |-> IF updates.priority = Absent THEN existing.priority ELSE updates.priority,
   status |-> IF updates.status = Absent THEN existing.status ELSE updates.status,
   dueDate |-> IF updates.dueDate = Absent THEN existing.dueDate ELSE updates.dueDate,
   attachments |-> IF updates.hasAttachments THEN updates.attachments ELSE existing.attachments,
   createdAt |-> existing.createdAt]

\* Store.getAll: all tasks, newest createdAt first.
RECURSIVE SortDesc(_, _)
SortDesc(st, ids) ==
  IF ids = {} THEN <<>>
  ELSE LET m == CHOOSE i \in ids : \A j \in ids : st[j].createdAt <= st[i].createdAt
       IN <<st[m]>> \o SortDesc(st, ids \ {m})

getAllTasks == SortDesc(store, DOMAIN store)

\* all.find(t => t.title.toLowerCase().includes(title_search.toLowerCase()))
FindMatch_last(all, title_search) ==
  LET hits == {i \in 1..Len(all) : includes(toLowerCase(all[i].title), toLowerCase(title_search))}
  IN IF hits = {} THEN Null ELSE all[CHOOSE i \in hits : \A j \in hits : j <= i]

FindMatch(all, title_search) ==
  LET hits == {i \in 1..Len(all) : includes(toLowerCase(all[i].title), toLowerCase(title_search))}
  IN IF hits = {} THEN Null ELSE all[CHOOSE i \in hits : \A j \in hits : i <= j]

(***************************************************************************)
(* generateImageForAttachment                                              *)
(***************************************************************************)

\* `b64 && b64.length < 1_400_000` on a 2xx answer.
AcceptB64_nocheck(r) == r.kind = "ok" /\ r.len > 0

AcceptB64(r) == r.kind = "ok" /\ r.len > 0 /\ r.len < Ceiling

\* The attachment built from candidate k's answer.
MakeAttachment(k, prompt, r) ==
  [name |-> <<"generated", prompt, Candidates[k].ext>>,
   type |-> Candidates[k].mime,
   dataUrl |-> [mime |-> Candidates[k].mime, cand |-> k, len |-> r.len, url |-> ""]]

\* Entry of generateImageForAttachment up to its first await.
PipeEnter(prompt) ==
  /\ iprompt' = prompt
  /\ ireqs' = <<>>
  /\ IF apiKey
       THEN ipc' = "a1" /\ iresult' = Null
       ELSE ipc' = "ret" /\ iresult' = Null

\* One attempt: the fetch, its answer, and the code up to the next fetch.
Attempt_noreturn(k, here, next) ==
  /\ ipc = here
  /\ \E r \in svc :
       /\ ireqs' = Append(ireqs, [cand |-> k, model |-> Candidates[k].model, resp |-> r])
       /\ ipc' = next
       /\ iresult' = IF AcceptB64(r) THEN MakeAttachment(k, iprompt, r) ELSE iresult
  /\ UNCHANGED <<apiKey, svc, iprompt>>

Attempt(k, here, next) ==
  /\ ipc = here
  /\ \E r \in svc :
       /\ ireqs' = Append(ireqs, [cand |-> k, model |-> Candidates[k].model, resp |-> r])
       /\ IF AcceptB64(r)
            THEN ipc' = "ret" /\ iresult' = MakeAttachment(k, iprompt, r)
            ELSE ipc' = next /\ iresult' = Null
  /\ UNCHANGED <<apiKey, svc, iprompt>>

Attempt1 == Attempt(1, "a1", "a2") /\ UNCHANGED <<genVars, toolVars, loopVars, raceVars>>

Attempt2_dalle == Attempt(3, "a2", "a3") /\ UNCHANGED <<genVars, toolVars, loopVars, raceVars>>

Attempt2 == Attempt(2, "a2", "a3") /\ UNCHANGED <<genVars, toolVars, loopVars, raceVars>>

Attempt3 == Attempt(3, "a3", "ret") /\ UNCHANGED <<genVars, toolVars, loopVars, raceVars>>

\* A run of the pipeline on its own.
PipeStart ==
  /\ ipc = "idle" /\ gpc = "idle"
  /\ \E p \in Prompts : PipeEnter(p)
  /\ UNCHANGED <<apiKey, svc, genVars, toolVars, loopVars, raceVars>>

PipeFinish ==
  /\ ipc = "ret"
  /\ ipc' = "idle" /\ iprompt' = NoPrompt /\ ireqs' = <<>> /\ iresult' = Null
  /\ UNCHANGED <<apiKey, svc, genVars, toolVars, loopVars, raceVars>>

(***************************************************************************)
(* POST /api/generate-image                                                *)
(***************************************************************************)
GenPrompts == Prompts \cup {"", " "}

\* prompt.trim().length === 0
IsBlank(p) == p \in {"", " "}

\* res.status === 404 || errBody.includes("model_not_found") || errBody.includes("Unknown parameter")
CandidateUnavailable(r) ==
  /\ r.kind = "http"
  /\ (r.status = 404 \/ r.body = "model_not_found" \/ r.body = "Unknown parameter")

HttpResponse(status, image) == [status |-> status, image |-> image]

GenStart ==
  /\ gpc = "idle" /\ ipc = "idle"
  /\ \E p \in GenPrompts :
       /\ gprompt' = p
       /\ greqs' = <<>>
       /\ IF ~apiKey
            THEN gpc' = "done" /\ gidx' = 0 /\ gresponse' = HttpResponse(500, Null)
            ELSE IF IsBlank(p)
              THEN gpc' = "done" /\ gidx' = 0 /\ gresponse' = HttpResponse(400, Null)
              ELSE gpc' = "loop" /\ gidx' = 1 /\ gresponse' = Null
  /\ UNCHANGED <<pipeVars, toolVars, loopVars, raceVars>>

\* One iteration of `for (const model of models)`.
GenFetch ==
  /\ gpc = "loop"
  /\ \E r \in svc :
       /\ greqs' = Append(greqs, [cand |-> gidx, model |-> models[gidx], resp |-> r])
       /\ IF r.kind = "throw"
            THEN gpc' = "done" /\ gidx' = gidx /\ gresponse' = HttpResponse(500, Null)
            ELSE IF r.kind = "ok" /\ r.hasImg
              THEN /\ gpc' = "done" /\ gidx' = gidx
                   /\ gresponse' = HttpResponse(200, [mime |-> "image/png", cand |-> gidx, len |-> r.len])
              ELSE IF r.kind = "ok" \/ CandidateUnavailable(r)
                THEN IF gidx < Len(models)
                       THEN gpc' = "loop" /\ gidx' = gidx + 1 /\ gresponse' = Null
                       ELSE gpc' = "done" /\ gidx' = gidx /\ gresponse' = HttpResponse(502, Null)
                ELSE gpc' = "done" /\ gidx' = gidx /\ gresponse' = HttpResponse(502, Null)
  /\ UNCHANGED <<gprompt, pipeVars, toolVars, loopVars, raceVars>>

GenFinish ==
  /\ gpc = "done"
  /\ gpc' = "idle" /\ gprompt' = NoPrompt /\ gidx' = 0 /\ greqs' = <<>> /\ gresponse' = Null
  /\ UNCHANGED <<pipeVars, toolVars, loopVars, raceVars>>

(***************************************************************************)
(* Tool calls of one chat request (create_task, update_task,               *)
(* generate_image), one action per stretch of code between two awaits.     *)
(***************************************************************************)
Args(tool, title, description, priority, due_date, chat, gen, title_search, status, new_title, prompt) ==
  [tool |-> tool, title |-> title, description |-> description, priority |-> priority,
   due_date |-> due_date, attach_chat_images |-> chat, attach_generated_images |-> gen,
   title_search |-> title_search, status |-> status, new_title |-> new_title,
   prompt |-> prompt]

NoArgs == Args("none", NoTitle, Absent, Absent, Absent, FALSE, FALSE, NoTitle, Absent, NoTitle, Absent)

\* The argument objects the LLM may send.
CreateArgSet ==
  { Args("create_task", t, o[1], o[2], o[3], chat, gen, NoTitle, Absent, NoTitle, Absent) :
      t \in Titles,
      o \in { <<Absent, Absent, Absent>>, <<"notes", "high", "tomorrow">> },
      chat \in BOOLEAN, gen \in BOOLEAN }

UpdateArgSet ==
  { Args("update_task", NoTitle, o[4], o[2], o[5], chat, gen, s, o[1], o[3], Absent) :
      s \in Searches,
      o \in { <<Absent, Absent, NoTitle, Absent, Absent>>,
              <<"done", Absent, NoTitle, Absent, Absent>>,
              <<"done", "low", <<"F", "i", "x">>, "more", "2020-01-01">> },
      chat \in BOOLEAN, gen \in BOOLEAN }

GenerateArgSet ==
  { Args("generate_image", NoTitle, Absent, Absent, Absent, FALSE, FALSE, NoTitle, Absent, NoTitle, p) :
      p \in Prompts }

Result(kind, success, task, attachedImages, note, error, prompt) ==
  [kind |-> kind, success |-> success, task |-> task, attachedImages |-> attachedImages,
   note |-> note, error |-> error, prompt |-> prompt]

Returned(task, attachedImages, note) ==
  Result("return", TRUE, task, attachedImages, note, Absent, Absent)

Threw(err) == Result("throw", FALSE, Null, 0, Absent, err, Absent)

NotFound == Result("return", FALSE, Null, 0, Absent, "No task found", Absent)

DroppedNote == "Image was too large to store"

Updates(status, priority, title, description, dueDate, hasAttachments, attachments) ==
  [status |-> status, priority |-> priority, title |-> title, description |-> description,
   dueDate |-> dueDate, hasAttachments |-> hasAttachments, attachments |-> attachments]

NoUpdates == Updates(Absent, Absent, NoTitle, Absent, Absent, FALSE, <<>>)

\* `if (status) updates.status = status; ...` of update_task.
BaseUpdates(a) ==
  Updates(a.status, a.priority, a.new_title, a.description, a.due_date, FALSE, <<>>)

\* `if (newImages.length > 0) updates.attachments = [...existing, ...newImages]`
\*   const existing = match.attachments ?? [];
WithAttachments(updates, match, newImages) ==
  IF Len(newImages) > 0
    THEN LET existing == IF match.attachments = NullAttachments THEN <<>> ELSE match.attachments
         IN [updates EXCEPT !.hasAttachments = TRUE, !.attachments = existing \o newImages]
    ELSE updates

\* The input object create_task hands to db.createTask.
CreateInput(a, attachments) ==
  [title |-> a.title,
   description |-> a.description,
   priority |-> IF a.priority = Absent THEN "medium" ELSE a.priority,
   dueDate |-> IF a.due_date = Absent THEN Absent ELSE parseDate(a.due_date),
   hasAttachments |-> Len(attachments) > 0,
   attachments |-> attachments]

\* `pendingImagePrompts.length > 0 ? pendingImagePrompts : extractGeneratedImagePrompts(messages)`
PromptSource_historyFirst ==
  IF Len(extractGeneratedImagePrompts(messages)) > 0
    THEN extractGeneratedImagePrompts(messages)
    ELSE pendingImagePrompts

PromptSource ==
  IF Len(pendingImagePrompts) > 0
    THEN pendingImagePrompts
    ELSE extractGeneratedImagePrompts(messages)

\* promptSource[promptSource.length - 1]
LatestPrompt(src) == src[Len(src)]

\* `if (attach_chat_images && chatImages.length > 0)`
ChatPart(a) == IF a.attach_chat_images /\ Len(chatImages) > 0 THEN chatImages ELSE <<>>

\* The `if (attach_generated_images) { ... }` block up to its await; next is
\* where the call continues when no generation is started.
ResolveGenerated(a, next) ==
  IF a.attach_generated_images /\ Len(generatedImages) > 0
    THEN /\ tatt' = ChatPart(a) \o generatedImages
         /\ tpc' = next
         /\ UNCHANGED <<ipc, iprompt, ireqs, iresult>>
    ELSE IF a.attach_generated_images /\ Len(PromptSource) > 0
      THEN /\ tatt' = ChatPart(a)
           /\ tpc' = "gen"
           /\ PipeEnter(LatestPrompt(PromptSource))
      ELSE /\ tatt' = ChatPart(a)
           /\ tpc' = next
           /\ UNCHANGED <<ipc, iprompt, ireqs, iresult>>

\* `if (img) { attachments.push(img); generatedImages.push(img); }`
PushImage_always ==
  /\ tatt' = IF iresult # Null THEN Append(tatt, iresult) ELSE tatt
  /\ generatedImages' = Append(generatedImages, iresult)

PushImage ==
  IF iresult # Null
    THEN /\ tatt' = Append(tatt, iresult)
         /\ generatedImages' = Append(generatedImages, iresult)
    ELSE UNCHANGED <<tatt, generatedImages>>

CreateTaskStart(a) ==
  /\ tpc = "idle" /\ ncalls < MaxCalls
  /\ Cardinality(DOMAIN store) < MaxTasks
  /\ targs' = a
  /\ ResolveGenerated(a, "set1")
  /\ UNCHANGED <<apiKey, svc, genVars, loopVars, raceVars, reqVars, storeVars, ncalls, tmatch, tupdates,
                 texisting, twrites, tresult>>

CreateGenReturn ==
  /\ tpc = "gen" /\ ipc = "ret" /\ targs.tool = "create_task"
  /\ PushImage
  /\ ipc' = "idle" /\ tpc' = "set1"
  /\ UNCHANGED <<apiKey, svc, iprompt, ireqs, iresult, genVars, loopVars, raceVars, messages, chatImages,
                 pendingImagePrompts, storeVars, ncalls, targs, tmatch, tupdates,
                 texisting, twrites, tresult>>

CreateSet1_leavesRecord ==
  /\ tpc = "set1" /\ targs.tool = "create_task"
  /\ \E o \in StoreOutcomes :
       LET task == NewTask(nextId, CreateInput(targs, tatt)) IN
         /\ twrites' = Append(twrites, [task |-> task, outcome |-> o])
         /\ IF o = "ok"
              THEN /\ store' = store @@ (nextId :> task)
                   /\ nextId' = nextId + 1
                   /\ tresult' = Returned(task, Len(tatt), Absent)
                   /\ tpc' = "done"
              ELSE IF Len(tatt) > 0 /\ IsTooLarge(o)
                THEN /\ tpc' = "set2"
                     /\ store' = store @@ (nextId :> task)
                     /\ nextId' = nextId + 1
                     /\ UNCHANGED tresult
                ELSE tpc' = "done" /\ tresult' = Threw(o) /\ UNCHANGED <<store, nextId>>
  /\ UNCHANGED <<pipeVars, genVars, loopVars, raceVars, reqVars, ncalls, targs, tatt, tmatch, tupdates, texisting>>

\* The first db.createTask and what follows its outcome.
CreateSet1 ==
  /\ tpc = "set1" /\ targs.tool = "create_task"
  /\ \E o \in StoreOutcomes :
       LET task == NewTask(nextId, CreateInput(targs, tatt)) IN
         /\ twrites' = Append(twrites, [task |-> task, outcome |-> o])
         /\ IF o = "ok"
              THEN /\ store' = store @@ (nextId :> task)
                   /\ nextId' = nextId + 1
                   /\ tresult' = Returned(task, Len(tatt), Absent)
                   /\ tpc' = "done"
              ELSE IF Len(tatt) > 0 /\ IsTooLarge(o)
                THEN tpc' = "set2" /\ UNCHANGED <<store, nextId, tresult>>
                ELSE tpc' = "done" /\ tresult' = Threw(o) /\ UNCHANGED <<store, nextId>>
  /\ UNCHANGED <<pipeVars, genVars, loopVars, raceVars, reqVars, ncalls, targs, tatt, tmatch, tupdates, texisting>>

\* The retry without attachments inside the catch block.
CreateSet2_keepsAttachments ==
  /\ tpc = "set2" /\ targs.tool = "create_task"
  /\ \E o \in StoreOutcomes :
       LET task == NewTask(nextId, CreateInput(targs, tatt)) IN
         /\ twrites' = Append(twrites, [task |-> task, outcome |-> o])
         /\ tpc' = "done"
         /\ IF o = "ok"
              THEN /\ store' = store @@ (nextId :> task)
                   /\ nextId' = nextId + 1
                   /\ tresult' = Returned(task, 0, DroppedNote)
              ELSE tresult' = Threw(o) /\ UNCHANGED <<store, nextId>>
  /\ UNCHANGED <<pipeVars, genVars, loopVars, raceVars, reqVars, ncalls, targs, tatt, tmatch, tupdates, texisting>>

CreateSet2 ==
  /\ tpc = "set2" /\ targs.tool = "create_task"
  /\ \E o \in StoreOutcomes :
       LET task == NewTask(nextId, CreateInput(targs, <<>>)) IN
         /\ twrites' = Append(twrites, [task |-> task, outcome |-> o])
         /\ tpc' = "done"
         /\ IF o = "ok"
              THEN /\ store' = store @@ (nextId :> task)
                   /\ nextId' = nextId + 1
                   /\ tresult' = Returned(task, 0, DroppedNote)
              ELSE tresult' = Threw(o) /\ UNCHANGED <<store, nextId>>
  /\ UNCHANGED <<pipeVars, genVars, loopVars, raceVars, reqVars, ncalls, targs, tatt, tmatch, tupdates, texisting>>

UpdateTaskStart(a) ==
  /\ tpc = "idle" /\ ncalls < MaxCalls
  /\ targs' = a
  /\ LET match == FindMatch(getAllTasks, a.title_search) IN
       IF match = Null
         THEN /\ tresult' = NotFound
              /\ tpc' = "done"
              /\ UNCHANGED <<ipc, iprompt, ireqs, iresult, tatt, tmatch, tupdates>>
         ELSE /\ tmatch' = match
              /\ ResolveGenerated(a, "get1")
              /\ tupdates' = WithAttachments(BaseUpdates(a), match, tatt')
              /\ UNCHANGED tresult
  /\ UNCHANGED <<apiKey, svc, genVars, loopVars, raceVars, reqVars, storeVars, ncalls, texisting, twrites>>

UpdateGenReturn ==
  /\ tpc = "gen" /\ ipc = "ret" /\ targs.tool = "update_task"
  /\ PushImage
  /\ tupdates' = WithAttachments(tupdates, tmatch, tatt')
  /\ ipc' = "idle" /\ tpc' = "get1"
  /\ UNCHANGED <<apiKey, svc, iprompt, ireqs, iresult, genVars, loopVars, raceVars, messages, chatImages,
                 pendingImagePrompts, storeVars, ncalls, targs, tmatch, texisting,
                 twrites, tresult>>

\* `existing = await store.get(id); if (!existing) return null;` of updateTask;
\* retried tells which of the two db.updateTask calls this is.
UpdateGet(here, next, retried) ==
  /\ tpc = here /\ targs.tool = "update_task"
  /\ IF tmatch.id \in DOMAIN store
       THEN /\ texisting' = store[tmatch.id]
            /\ tpc' = next
            /\ UNCHANGED tresult
       ELSE /\ tresult' = IF retried THEN Returned(Null, 0, DroppedNote)
                                     ELSE Returned(Null, Len(tatt), Absent)
            /\ tpc' = "done"
            /\ UNCHANGED texisting
  /\ UNCHANGED <<pipeVars, genVars, loopVars, raceVars, reqVars, storeVars, ncalls, targs, tatt, tmatch,
                 tupdates, twrites>>

UpdateGet1 == UpdateGet("get1", "set1", FALSE)

UpdateGet2 == UpdateGet("get2", "set2", TRUE)

\* `await store.set(updated)` of the first db.updateTask and what follows.
UpdateSet1 ==
  /\ tpc = "set1" /\ targs.tool = "update_task"
  /\ \E o \in StoreOutcomes :
       LET updated == MergeTask(texisting, tupdates) IN
         /\ twrites' = Append(twrites, [task |-> updated, outcome |-> o])
         /\ IF o = "ok"
              THEN /\ store' = [store EXCEPT ![updated.id] = updated]
                   /\ tresult' = Returned(updated, Len(tatt), Absent)
                   /\ tpc' = "done"
                   /\ UNCHANGED tupdates
              ELSE IF Len(tatt) > 0 /\ IsTooLarge(o)
                THEN /\ tupdates' = [tupdates EXCEPT !.hasAttachments = FALSE, !.attachments = <<>>]
                     /\ tpc' = "get2"
                     /\ UNCHANGED <<store, tresult>>
                ELSE /\ tresult' = Threw(o)
                     /\ tpc' = "done"
                     /\ UNCHANGED <<store, tupdates>>
  /\ UNCHANGED <<pipeVars, genVars, loopVars, raceVars, reqVars, nextId, ncalls, targs, tatt, tmatch, texisting>>

UpdateSet2_again ==
  /\ tpc = "set2" /\ targs.tool = "update_task"
  /\ \E o \in StoreOutcomes :
       LET updated == MergeTask(texisting, tupdates) IN
         /\ twrites' = Append(twrites, [task |-> updated, outcome |-> o])
         /\ IF o = "ok"
              THEN /\ store' = [store EXCEPT ![updated.id] = updated]
                   /\ tresult' = Returned(updated, 0, DroppedNote)
                   /\ tpc' = "done"
              ELSE IF IsTooLarge(o) /\ Len(twrites) < 3
                THEN tpc' = "get2" /\ UNCHANGED <<store, tresult>>
                ELSE tpc' = "done" /\ tresult' = Threw(o) /\ UNCHANGED store
  /\ UNCHANGED <<pipeVars, genVars, loopVars, raceVars, reqVars, nextId, ncalls, targs, tatt, tmatch,
                 tupdates, texisting>>

\* `await store.set(updated)` of the retry inside the catch block.
UpdateSet2 ==
  /\ tpc = "set2" /\ targs.tool = "update_task"
  /\ \E o \in StoreOutcomes :
       LET updated == MergeTask(texisting, tupdates) IN
         /\ twrites' = Append(twrites, [task |-> updated, outcome |-> o])
         /\ tpc' = "done"
         /\ IF o = "ok"
              THEN /\ store' = [store EXCEPT ![updated.id] = updated]
                   /\ tresult' = Returned(updated, 0, DroppedNote)
              ELSE tresult' = Threw(o) /\ UNCHANGED store
  /\ UNCHANGED <<pipeVars, genVars, loopVars, raceVars, reqVars, nextId, ncalls, targs, tatt, tmatch,
                 tupdates, texisting>>

GenerateImage(a) ==
  /\ tpc = "idle" /\ ncalls < MaxCalls
  /\ targs' = a
  /\ pendingImagePrompts' = Append(pendingImagePrompts, a.prompt)
  /\ tresult' = Result("return", TRUE, Null, 0, Absent, Absent, a.prompt)
  /\ tpc' = "done"
  /\ UNCHANGED <<pipeVars, genVars, loopVars, raceVars, messages, chatImages, generatedImages, storeVars,
                 ncalls, tatt, tmatch, tupdates, texisting, twrites>>

\* The result (or the error) goes back to streamText; the next call may start.
CallFinish ==
  /\ tpc = "done"
  /\ tpc' = "idle" /\ ncalls' = ncalls + 1
  /\ targs' = NoArgs /\ tatt' = <<>> /\ tmatch' = Null /\ tupdates' = NoUpdates
  /\ texisting' = Null /\ twrites' = <<>> /\ tresult' = Null
  /\ ipc' = "idle" /\ iprompt' = NoPrompt /\ ireqs' = <<>> /\ iresult' = Null
  /\ UNCHANGED <<apiKey, svc, genVars, loopVars, raceVars, reqVars, storeVars>>

\* The answers of the image service considered inside a chat request.
ToolResponses ==
  { Resp("throw", 0, "other", FALSE, 0), Resp("http", 401, "other", FALSE, 0),
    Resp("ok", 200, "other", TRUE, Ceiling - 1), Resp("ok", 200, "other", TRUE, Ceiling) }

\* The chat requests and the handler executions that may be in flight at once.
Requests == {1, 2}

Slots == {1, 2}

\* No request set up yet.
NoRequest ==
  [started |-> FALSE, messages |-> <<>>, chatImages |-> <<>>, generatedImages |-> <<>>,
   pendingImagePrompts |-> <<>>]

\* A handler execution that has not started: its locals are unset.
IdleSlot ==
  [pc |-> "idle", tool |-> "none", req |-> 0, args |-> NoArgs, filter |-> Absent,
   limit |-> 0, id |-> 0, match |-> Null, newImages |-> <<>>, prompt |-> NoPrompt,
   updates |-> NoUpdates, existing |-> Null, retried |-> FALSE, all |-> <<>>,
   remaining |-> <<>>, result |-> Null]

IdleRace == reqs = [r \in Requests |-> NoRequest] /\ calls = [c \in Slots |-> IdleSlot]

\* Tasks the store may hold when a request arrives: built by createTask, the
\* second one with a due date in the past.
PetTask ==
  NewTask(1, [title |-> <<"P", "e", "t">>, description |-> Absent, priority |-> "medium",
              dueDate |-> Absent, hasAttachments |-> TRUE,
              attachments |-> <<ChatAttachment(FilePart("image/png", "u0"))>>])

ApeTask ==
  NewTask(2, [title |-> <<"a", "P", "E">>, description |-> Absent, priority |-> "high",
              dueDate |-> "2020-01-01", hasAttachments |-> FALSE, attachments |-> <<>>])

IdleLoop ==
  /\ lphase = "AwaitingModel" /\ lsteps = 0 /\ lcalls = <<>> /\ lresults = <<>>
  /\ ltext = FALSE
  /\ lmodel = Absent

IdleCall ==
  /\ ncalls = 0 /\ tpc = "idle" /\ targs = NoArgs /\ tatt = <<>> /\ tmatch = Null
  /\ tupdates = NoUpdates /\ texisting = Null /\ twrites = <<>> /\ tresult = Null

IdlePipe ==
  /\ ipc = "idle" /\ iprompt = NoPrompt /\ ireqs = <<>> /\ iresult = Null
  /\ gpc = "idle" /\ gprompt = NoPrompt /\ gidx = 0 /\ greqs = <<>> /\ gresponse = Null

InitTool ==
  /\ apiKey \in BOOLEAN
  /\ svc = ToolResponses
  /\ IdlePipe
  /\ messages \in Histories
  /\ chatImages = extractChatImages(messages)
  /\ generatedImages = <<>>
  /\ pendingImagePrompts = <<>>
  /\ store \in {<<>>, (1 :> PetTask)}
  /\ nextId = Cardinality(DOMAIN store) + 1
  /\ IdleCall
  /\ IdleLoop
  /\ requestedModel = Absent
  /\ IdleRace

NextTool ==
  \/ \E a \in CreateArgSet : CreateTaskStart(a)
  \/ CreateGenReturn
  \/ CreateSet1
  \/ CreateSet2
  \/ \E a \in UpdateArgSet : UpdateTaskStart(a)
  \/ UpdateGenReturn
  \/ UpdateGet1
  \/ UpdateSet1
  \/ UpdateGet2
  \/ UpdateSet2
  \/ \E a \in GenerateArgSet : GenerateImage(a)
  \/ CallFinish
  \/ Attempt1
  \/ Attempt2
  \/ Attempt3

SpecTool == InitTool /\ [][NextTool]_vars

\* The steps of a call in flight: each is the continuation of an awaited fetch
\* or store call, which runs once the awaited promise has settled.
CallStep ==
  \/ CreateGenReturn \/ CreateSet1 \/ CreateSet2
  \/ UpdateGenReturn \/ UpdateGet1 \/ UpdateSet1 \/ UpdateGet2 \/ UpdateSet2
  \/ Attempt1 \/ Attempt2 \/ Attempt3

\* The tools when every awaited external call is eventually answered; each
\* step of a call moves the call's or the pipeline's position.
SpecToolFair == SpecTool /\ WF_<<tpc, ipc>>(CallStep)

(***************************************************************************)
(* POST /api/chat: the round loop that streamText runs over the tools.     *)
(* Only the calls and results of the latest round are kept; what earlier   *)
(* rounds appended to the history is never changed again.                  *)
(***************************************************************************)
StepLimit == 20

MaxRoundCalls == 2

DEFAULT_MODEL == "gpt-5-mini"

ALLOWED_MODELS ==
  <<"gpt-4o-mini", "gpt-5-nano", "gpt-5-mini", "gpt-5", "gpt-5.1", "gpt-5.2", "gpt-5.2-pro",
    "o4-mini">>

\* The `model` a request body may carry: none, null, the empty string, names
\* of the list, a name that is not in it, and a listed name in other case.
RequestedModels == {Absent, NullStr, "", "gpt-5", "o4-mini", "gpt-4", "GPT-5"}

\* A selection that hands the caller's string on whenever there is one.
selectedModel_asRequested ==
  IF requestedModel \in {Absent, NullStr, ""} THEN DEFAULT_MODEL ELSE requestedModel

\* `ALLOWED_MODELS.includes(requestedModel ?? "") ? requestedModel! : DEFAULT_MODEL`,
\* the argument of openai(...)
selectedModel ==
  LET x == IF requestedModel \in {Absent, NullStr} THEN "" ELSE requestedModel IN
    IF \E i \in 1..Len(ALLOWED_MODELS) : ALLOWED_MODELS[i] = x
      THEN requestedModel
      ELSE DEFAULT_MODEL

\* The keys of `tools`.
ToolNames ==
  {"create_task", "get_tasks", "update_task", "delete_task", "delete_all_tasks",
   "generate_image"}

\* The names the LLM may put into a function call.
CalledNames == {"create_task", "update_task", "generate_image", "no_such_tool"}

\* stopWhen: stepCountIs(20)
stopWhen_never(steps) == FALSE

stopWhen(steps) == steps = StepLimit

\* How an execute of the tool can end: every tool but generate_image awaits
\* the store and rethrows its errors.
ExecOutcomes(name) ==
  IF name = "generate_image" THEN {"return"} ELSE {"return", "throw"}

\* One LLM round: the model answers with text only or with function calls,
\* which may come with text or without.
ModelRound ==
  /\ lphase = "AwaitingModel"
  /\ lsteps' = lsteps + 1
  /\ lresults' = <<>>
  /\ \E text \in BOOLEAN : ltext' = (ltext \/ text)
  /\ lmodel' = selectedModel
  /\ \/ lcalls' = <<>> /\ lphase' = "Done"
     \/ \E n \in 1..MaxRoundCalls : \E names \in [1..n -> CalledNames] :
          /\ lcalls' = [i \in 1..n |-> [id |-> <<lsteps + 1, i>>, name |-> names[i]]]
          /\ lphase' = "ExecutingFunctions"
  /\ UNCHANGED <<requestedModel, pipeVars, genVars, toolVars, raceVars>>

Pending == {i \in 1..Len(lcalls) : \A j \in 1..Len(lresults) : lresults[j].id # lcalls[i].id}

\* One function call of the round settles: its execute returns or throws, or
\* the call names no registered tool and is rejected without executing.
ExecuteCall ==
  /\ lphase = "ExecutingFunctions"
  /\ \E i \in Pending :
       \E out \in (IF lcalls[i].name \in ToolNames THEN ExecOutcomes(lcalls[i].name) ELSE {"rejected"}) :
         lresults' = Append(lresults,
                       [id |-> lcalls[i].id,
                        kind |-> IF out = "return" THEN "tool-result" ELSE "tool-error"])
  /\ UNCHANGED <<lphase, lsteps, lcalls, ltext, requestedModel, lmodel, pipeVars, genVars, toolVars, raceVars>>

\* Every call of the round has its result: stop or ask the model again.
EndRound_early ==
  /\ lphase = "ExecutingFunctions"
  /\ lphase' = IF stopWhen(lsteps) THEN "Done" ELSE "AwaitingModel"
  /\ UNCHANGED <<lsteps, lcalls, lresults, ltext, requestedModel, lmodel, pipeVars, genVars, toolVars, raceVars>>

EndRound ==
  /\ lphase = "ExecutingFunctions"
  /\ Len(lresults) >= Len(lcalls)
  /\ lphase' = IF stopWhen(lsteps) THEN "Done" ELSE "AwaitingModel"
  /\ UNCHANGED <<lsteps, lcalls, lresults, ltext, requestedModel, lmodel, pipeVars, genVars, toolVars, raceVars>>

\* `return result.toUIMessageStreamResponse()`: the streamed answer carries
\* the text and tool parts of the rounds; nothing is added to it when the
\* loop stops at the step limit.
Answer == [status |-> 200, text |-> ltext, notice |-> FALSE]

InitLoop ==
  /\ apiKey \in BOOLEAN
  /\ svc = Responses
  /\ IdlePipe
  /\ messages = << <<TextPart>> >>
  /\ chatImages = <<>>
  /\ generatedImages = <<>>
  /\ pendingImagePrompts = <<>>
  /\ store = <<>>
  /\ nextId = 1
  /\ IdleCall
  /\ IdleLoop
  /\ requestedModel \in RequestedModels
  /\ IdleRace

NextLoop ==
  \/ ModelRound
  \/ ExecuteCall
  \/ EndRound

SpecLoop == InitLoop /\ [][NextLoop]_vars

InitPipe ==
  /\ apiKey \in BOOLEAN
  /\ svc = Responses
  /\ IdlePipe
  /\ messages = << <<TextPart>> >>
  /\ chatImages = <<>>
  /\ generatedImages = <<>>
  /\ pendingImagePrompts = <<>>
  /\ store = <<>>
  /\ nextId = 1
  /\ IdleCall
  /\ IdleLoop
  /\ requestedModel = Absent
  /\ IdleRace

NextPipe ==
  \/ PipeStart
  \/ Attempt1
  \/ Attempt2
  \/ Attempt3
  \/ PipeFinish
  \/ GenStart
  \/ GenFetch
  \/ GenFinish

SpecPipe == InitPipe /\ [][NextPipe]_vars

(***************************************************************************)
(* Concurrent handler executions against the shared task store (SpecRace). *)
(* Up to two executions are in flight at once: tool calls of the chat      *)
(* requests (update_task, delete_task, delete_all_tasks, get_tasks,        *)
(* generate_image) and the PATCH / DELETE handlers of /api/tasks/[id].     *)
(* Each advances by one stretch of code between two awaits.  The store     *)
(* keeps the Task it is given (MemoryStore, EdgeConfigStore).              *)
(***************************************************************************)

\* new Date().toISOString().split("T")[0]
Today == "2026-11-01"

\* The dueDate strings in use, in the order `<` and localeCompare put them.
DueOrder == <<"12/25/2030", "2020-01-01", "2026-11-01", "2026-11-02", "2030-12-25", "tomorrow">>

StrIndex(s) == CHOOSE i \in 1..Len(DueOrder) : DueOrder[i] = s

\* a < b on strings
StrLess(a, b) == StrIndex(a) < StrIndex(b)

\* The filter of getOverdueTasks.
IsOverdueTask(t) ==
  /\ t.dueDate # NullStr
  /\ StrLess(t.dueDate, Today)
  /\ (t.status = "todo" \/ t.status = "in_progress")

\* .sort((a, b) => (a.dueDate ?? "").localeCompare(b.dueDate ?? ""))
RECURSIVE SortByDue(_)
SortByDue(seq) ==
  IF seq = <<>> THEN <<>>
  ELSE LET m == CHOOSE i \in 1..Len(seq) :
                  \A j \in 1..Len(seq) :
                    \/ StrLess(seq[i].dueDate, seq[j].dueDate)
                    \/ seq[i].dueDate = seq[j].dueDate /\ i <= j
       IN <<seq[m]>> \o SortByDue(SubSeq(seq, 1, m - 1) \o SubSeq(seq, m + 1, Len(seq)))

getOverdueTasks == SortByDue(SelectSeq(getAllTasks, IsOverdueTask))

HasStatus(seq, status) == SelectSeq(seq, LAMBDA t : t.status = status)

HasPriority(seq, priority) == SelectSeq(seq, LAMBDA t : t.priority = priority)

\* get_tasks: the list its filter selects, then `tasks.slice(0, limit)`.
Filtered(f) ==
  IF f = "overdue" THEN getOverdueTasks
  ELSE IF f \in {"high", "medium", "low"} THEN HasPriority(getAllTasks, f)
  ELSE IF f \in {"todo", "in_progress", "done"} THEN HasStatus(getAllTasks, f)
  ELSE getAllTasks

Slice(seq, limit) ==
  IF limit = 0 THEN seq ELSE SubSeq(seq, 1, IF limit < Len(seq) THEN limit ELSE Len(seq))

\* A remove that clears the store.
Without_all(st, id) == [i \in {} |-> st[i]]

\* Store.remove
Without(st, id) == [i \in DOMAIN st \ {id} |-> st[i]]

\* Store.set (an upsert under task.id)
Upsert(st, task) == (task.id :> task) @@ st

\* What a tool call or a route handler ended with.
RaceResult(kind, success, task, attachedImages, note, error, tasks, deleted, status) ==
  [kind |-> kind, success |-> success, task |-> task, attachedImages |-> attachedImages,
   note |-> note, error |-> error, tasks |-> tasks, deleted |-> deleted, status |-> status]

\* { success: true, task: updated, attachedImages, note? }
Updated(task, attachedImages, note) ==
  RaceResult("return", TRUE, task, attachedImages, note, Absent, <<>>, 0, 0)

\* { success: false, error: `No task found matching ...` }
NoMatch == RaceResult("return", FALSE, Null, 0, Absent, "No task found", <<>>, 0, 0)

Thrown(err) == RaceResult("throw", FALSE, Null, 0, Absent, err, <<>>, 0, 0)

\* { success: true, count, tasks } / { success: true, deleted } / { success: true, deleted_count }
Listed(tasks) == RaceResult("return", TRUE, Null, 0, Absent, Absent, tasks, 0, 0)

Deleted(n) == RaceResult("return", TRUE, Null, 0, Absent, Absent, <<>>, n, 0)

Prompted == RaceResult("return", TRUE, Null, 0, Absent, Absent, <<>>, 0, 0)

\* Response.json(..., { status })
Http(status, task) == RaceResult("http", status = 200, task, 0, Absent, Absent, <<>>, 0, status)

RaceStores == { (1 :> PetTask), (1 :> PetTask) @@ (2 :> ApeTask) }

\* The conversations of the requests.
RaceHistories ==
  { << <<TextPart>> >>,
    << <<TextPart, FilePart("image/png", "u1")>>,
       <<ToolPart("tool-generate_image", Absent, "output-available", TRUE, "logo")>> >> }

\* The argument objects of the calls.
RaceUpdateArgs ==
  { Args("update_task", NoTitle, Absent, o[2], o[3], o[4], o[5], o[6], o[1], NoTitle, Absent) :
      o \in { <<"done", Absent, Absent, FALSE, FALSE, <<"p", "E">> >>,
              <<Absent, "low", Absent, FALSE, FALSE, <<"p", "E">> >>,
              <<Absent, Absent, "12/25/2030", FALSE, FALSE, <<"p", "E">> >>,
              <<Absent, Absent, Absent, TRUE, FALSE, <<"e", "T">> >>,
              <<Absent, Absent, Absent, FALSE, TRUE, <<"e", "T">> >>,
              <<"done", Absent, Absent, FALSE, FALSE, <<"z">> >> } }

RaceDeleteArgs ==
  { Args("delete_task", NoTitle, Absent, Absent, Absent, FALSE, FALSE, s, Absent, NoTitle, Absent) :
      s \in { <<"p", "E">>, <<"F", "i", "x">> } }

Filters == {"overdue", "done", "high", Absent}

Limits == {0, 1}

\* The JSON bodies of PATCH /api/tasks/[id] and the ids of its path.
PatchBodies ==
  { Updates("done", Absent, NoTitle, Absent, Absent, FALSE, <<>>),
    Updates(Absent, Absent, NoTitle, Absent, Absent, TRUE, NullAttachments),
    Updates(Absent, Absent, NoTitle, Absent, "2020-01-01", FALSE, <<>>) }

PathIds == {1, 2}

\* The closure a call of request r reads and writes.
ClosureOf_shared(r) == 1

ClosureOf(r) == r

\* POST /api/chat up to streamText: the request's own closure is set up.
RequestStart(r) ==
  /\ ~reqs[r].started
  /\ \E msgs \in RaceHistories :
       reqs' = [reqs EXCEPT ![r] =
                  [started |-> TRUE, messages |-> msgs, chatImages |-> extractChatImages(msgs),
                   generatedImages |-> <<>>, pendingImagePrompts |-> <<>>]]
  /\ UNCHANGED <<calls, pipeVars, genVars, toolVars, loopVars>>

\* A call of request r may start in slot c.
CanStart(c, r) == calls[c].pc = "idle" /\ reqs[r].started

\* `pendingImagePrompts.length > 0 ? pendingImagePrompts : extractGeneratedImagePrompts(messages)`
PromptSourceOf(cl) ==
  IF Len(cl.pendingImagePrompts) > 0
    THEN cl.pendingImagePrompts
    ELSE extractGeneratedImagePrompts(cl.messages)

\* `if (attach_chat_images && chatImages.length > 0) newImages.push(...chatImages)`
ChatPartOf(a, cl) ==
  IF a.attach_chat_images /\ Len(cl.chatImages) > 0 THEN cl.chatImages ELSE <<>>

\* What generateImageForAttachment(prompt) can return.
PipeOutcomes(prompt) ==
  {Null} \cup
    (IF apiKey
       THEN {MakeAttachment(k, prompt, r) : k \in DOMAIN Candidates, r \in {x \in svc : AcceptB64(x)}}
       ELSE {})

\* update_task.execute from db.getAllTasks() to its next await.
RUpdateStart(c, r, a) ==
  /\ CanStart(c, r)
  /\ LET cl == reqs[ClosureOf(r)]
         match == FindMatch(getAllTasks, a.title_search)
         me == [calls[c] EXCEPT !.tool = "update_task", !.req = r, !.args = a]
     IN IF match = Null
          THEN calls' = [calls EXCEPT ![c] = [me EXCEPT !.pc = "done", !.result = NoMatch]]
          ELSE IF a.attach_generated_images /\ Len(cl.generatedImages) > 0
            THEN LET imgs == ChatPartOf(a, cl) \o cl.generatedImages IN
                   calls' = [calls EXCEPT ![c] =
                     [me EXCEPT !.pc = "get", !.match = match, !.newImages = imgs,
                                !.updates = WithAttachments(BaseUpdates(a), match, imgs)]]
            ELSE IF a.attach_generated_images /\ Len(PromptSourceOf(cl)) > 0
              THEN calls' = [calls EXCEPT ![c] =
                     [me EXCEPT !.pc = "gen", !.match = match, !.newImages = ChatPartOf(a, cl),
                                !.prompt = LatestPrompt(PromptSourceOf(cl)),
                                !.updates = BaseUpdates(a)]]
              ELSE calls' = [calls EXCEPT ![c] =
                     [me EXCEPT !.pc = "get", !.match = match, !.newImages = ChatPartOf(a, cl),
                                !.updates = WithAttachments(BaseUpdates(a), match, ChatPartOf(a, cl))]]
  /\ UNCHANGED <<reqs, pipeVars, genVars, toolVars, loopVars>>

\* generateImageForAttachment returned: push the image, merge the new images.
RUpdateGen(c) ==
  /\ calls[c].pc = "gen"
  /\ \E img \in PipeOutcomes(calls[c].prompt) :
       LET k == ClosureOf(calls[c].req)
           imgs == IF img # Null THEN Append(calls[c].newImages, img) ELSE calls[c].newImages
       IN /\ calls' = [calls EXCEPT ![c] =
                  [@ EXCEPT !.pc = "get", !.newImages = imgs,
                            !.updates = WithAttachments(@, calls[c].match, imgs)]]
          /\ reqs' = IF img # Null
                       THEN [reqs EXCEPT ![k].generatedImages = Append(@, img)]
                       ELSE reqs
  /\ UNCHANGED <<pipeVars, genVars, toolVars, loopVars>>

\* db.updateTask: `existing = await store.get(id); if (!existing) return null;`
\* a null makes execute return { success: true, task: null, ... }.
RUpdateGet(c) ==
  /\ calls[c].pc = "get"
  /\ LET me == calls[c] IN
       IF me.match.id \in DOMAIN store
         THEN calls' = [calls EXCEPT ![c] = [me EXCEPT !.pc = "set", !.existing = store[me.match.id]]]
         ELSE calls' = [calls EXCEPT ![c] =
                [me EXCEPT !.pc = "done",
                           !.result = IF me.retried THEN Updated(Null, 0, DroppedNote)
                                                    ELSE Updated(Null, Len(me.newImages), Absent)]]
  /\ UNCHANGED <<reqs, pipeVars, genVars, toolVars, loopVars>>

\* db.updateTask: `await store.set(updated)`, and the catch block of execute.
RUpdateSet(c) ==
  /\ calls[c].pc = "set"
  /\ \E o \in StoreOutcomes :
       LET me == calls[c]
           updated == MergeTask(me.existing, me.updates)
       IN IF o = "ok"
            THEN /\ store' = Upsert(store, updated)
                 /\ calls' = [calls EXCEPT ![c] =
                      [me EXCEPT !.pc = "done",
                                 !.result = IF me.retried THEN Updated(updated, 0, DroppedNote)
                                                          ELSE Updated(updated, Len(me.newImages), Absent)]]
            ELSE /\ UNCHANGED store
                 /\ IF ~me.retried /\ Len(me.newImages) > 0 /\ IsTooLarge(o)
                      THEN calls' = [calls EXCEPT ![c] =
                             [me EXCEPT !.pc = "get", !.retried = TRUE,
                                        !.updates = [@ EXCEPT !.hasAttachments = FALSE,
                                                              !.attachments = <<>>]]]
                      ELSE calls' = [calls EXCEPT ![c] = [me EXCEPT !.pc = "done", !.result = Thrown(o)]]
  /\ UNCHANGED <<reqs, pipeVars, genVars, loopVars, reqVars, nextId, callVars>>
\* delete_task.execute from db.getAllTasks() to `await db.deleteTask(match.id)`.
RDeleteTaskStart(c, r, a) ==
  /\ CanStart(c, r)
  /\ LET match == FindMatch(getAllTasks, a.title_search)
         me == [calls[c] EXCEPT !.tool = "delete_task", !.req = r, !.args = a]
     IN IF match = Null
          THEN calls' = [calls EXCEPT ![c] = [me EXCEPT !.pc = "done", !.result = NoMatch]]
          ELSE calls' = [calls EXCEPT ![c] = [me EXCEPT !.pc = "rm", !.match = match]]
  /\ UNCHANGED <<reqs, pipeVars, genVars, toolVars, loopVars>>

\* What Store.remove may answer.
RemoveOutcomes == {"ok", "other"}

\* `await db.deleteTask(match.id); return { success: true, deleted: match.title }`
RDeleteTaskRemove(c) ==
  /\ calls[c].pc = "rm"
  /\ \E o \in RemoveOutcomes :
       IF o = "ok"
         THEN /\ store' = Without(store, calls[c].match.id)
              /\ calls' = [calls EXCEPT ![c] = [@ EXCEPT !.pc = "done", !.result = Deleted(1)]]
         ELSE /\ UNCHANGED store
              /\ calls' = [calls EXCEPT ![c] = [@ EXCEPT !.pc = "done", !.result = Thrown(o)]]
  /\ UNCHANGED <<reqs, pipeVars, genVars, loopVars, reqVars, nextId, callVars>>

\* delete_all_tasks.execute: `const all = await db.getAllTasks()`.
RDeleteAllStart(c, r) ==
  /\ CanStart(c, r)
  /\ LET all == getAllTasks
         me == [calls[c] EXCEPT !.tool = "delete_all_tasks", !.req = r, !.all = all,
                                !.remaining = all]
     IN IF all = <<>>
          THEN calls' = [calls EXCEPT ![c] = [me EXCEPT !.pc = "done", !.result = Deleted(0)]]
          ELSE calls' = [calls EXCEPT ![c] = [me EXCEPT !.pc = "rmall"]]
  /\ UNCHANGED <<reqs, pipeVars, genVars, toolVars, loopVars>>

\* One iteration of `for (const task of all) await db.deleteTask(task.id)`.
RDeleteAllRemove(c) ==
  /\ calls[c].pc = "rmall"
  /\ \E o \in RemoveOutcomes :
       LET me == calls[c] IN
         IF o = "ok"
           THEN /\ store' = Without(store, Head(me.remaining).id)
                /\ calls' = [calls EXCEPT ![c] =
                     IF Len(me.remaining) > 1
                       THEN [me EXCEPT !.remaining = Tail(me.remaining)]
                       ELSE [me EXCEPT !.remaining = <<>>, !.pc = "done",
                                       !.result = Deleted(Len(me.all))]]
           ELSE /\ UNCHANGED store
                /\ calls' = [calls EXCEPT ![c] = [me EXCEPT !.pc = "done", !.result = Thrown(o)]]
  /\ UNCHANGED <<reqs, pipeVars, genVars, loopVars, reqVars, nextId, callVars>>

\* get_tasks.execute: one store read, the filter, the slice.
RGetTasks(c, r, f, limit) ==
  /\ CanStart(c, r)
  /\ calls' = [calls EXCEPT ![c] =
       [@ EXCEPT !.tool = "get_tasks", !.req = r, !.filter = f, !.limit = limit,
                 !.pc = "done", !.result = Listed(Slice(Filtered(f), limit))]]
  /\ UNCHANGED <<reqs, pipeVars, genVars, toolVars, loopVars>>

\* generate_image.execute
RGenerateImage(c, r, p) ==
  /\ CanStart(c, r)
  /\ reqs' = [reqs EXCEPT ![ClosureOf(r)].pendingImagePrompts = Append(@, p)]
  /\ calls' = [calls EXCEPT ![c] =
       [@ EXCEPT !.tool = "generate_image", !.req = r, !.prompt = p,
                 !.pc = "done", !.result = Prompted]]
  /\ UNCHANGED <<pipeVars, genVars, toolVars, loopVars>>

\* An updateTask without the `if (!existing) return null` test: an absent id
\* is written like a stored one.
RPatchGet_upserts(c, id, body) ==
  /\ calls[c].pc = "idle"
  /\ LET me == [calls[c] EXCEPT !.tool = "PATCH", !.id = id, !.updates = body] IN
       calls' = [calls EXCEPT ![c] =
         [me EXCEPT !.pc = "pset",
                    !.existing = IF id \in DOMAIN store THEN store[id]
                                                        ELSE [PetTask EXCEPT !.id = id]]]
  /\ UNCHANGED <<reqs, pipeVars, genVars, toolVars, loopVars>>

\* PATCH /api/tasks/[id]: updateTask(id, body) up to `await store.get(id)`.
RPatchGet(c, id, body) ==
  /\ calls[c].pc = "idle"
  /\ LET me == [calls[c] EXCEPT !.tool = "PATCH", !.id = id, !.updates = body] IN
       IF id \in DOMAIN store
         THEN calls' = [calls EXCEPT ![c] = [me EXCEPT !.pc = "pset", !.existing = store[id]]]
         ELSE calls' = [calls EXCEPT ![c] = [me EXCEPT !.pc = "done", !.result = Http(404, Null)]]
  /\ UNCHANGED <<reqs, pipeVars, genVars, toolVars, loopVars>>

\* PATCH: `await store.set(updated)` and the response.
RPatchSet(c) ==
  /\ calls[c].pc = "pset"
  /\ \E o \in StoreOutcomes :
       LET me == calls[c]
           updated == MergeTask(me.existing, me.updates)
       IN IF o = "ok"
            THEN /\ store' = Upsert(store, updated)
                 /\ calls' = [calls EXCEPT ![c] = [me EXCEPT !.pc = "done", !.result = Http(200, updated)]]
            ELSE /\ UNCHANGED store
                 /\ calls' = [calls EXCEPT ![c] = [me EXCEPT !.pc = "done", !.result = Thrown(o)]]
  /\ UNCHANGED <<reqs, pipeVars, genVars, loopVars, reqVars, nextId, callVars>>

\* DELETE /api/tasks/[id]
RDeleteRoute(c, id) ==
  /\ calls[c].pc = "idle"
  /\ \E o \in RemoveOutcomes :
       LET me == [calls[c] EXCEPT !.tool = "DELETE", !.id = id, !.pc = "done"] IN
         IF o = "ok"
           THEN /\ store' = Without(store, id)
                /\ calls' = [calls EXCEPT ![c] = [me EXCEPT !.result = Http(200, Null)]]
           ELSE /\ UNCHANGED store
                /\ calls' = [calls EXCEPT ![c] = [me EXCEPT !.result = Thrown(o)]]
  /\ UNCHANGED <<reqs, pipeVars, genVars, loopVars, reqVars, nextId, callVars>>

\* The answers of the image service considered for the concurrent executions.
RaceResponses == { Resp("throw", 0, "other", FALSE, 0), Resp("ok", 200, "other", TRUE, Ceiling - 1) }

InitRace ==
  /\ apiKey = TRUE
  /\ svc = RaceResponses
  /\ IdlePipe
  /\ messages = << <<TextPart>> >>
  /\ chatImages = <<>>
  /\ generatedImages = <<>>
  /\ pendingImagePrompts = <<>>
  /\ store \in RaceStores
  /\ nextId = 3
  /\ IdleCall
  /\ IdleLoop
  /\ requestedModel = Absent
  /\ IdleRace

NextRace ==
  \/ \E r \in Requests : RequestStart(r)
  \/ \E c \in Slots, r \in Requests, a \in RaceUpdateArgs : RUpdateStart(c, r, a)
  \/ \E c \in Slots : RUpdateGen(c)
  \/ \E c \in Slots : RUpdateGet(c)
  \/ \E c \in Slots : RUpdateSet(c)
  \/ \E c \in Slots, r \in Requests, a \in RaceDeleteArgs : RDeleteTaskStart(c, r, a)
  \/ \E c \in Slots : RDeleteTaskRemove(c)
  \/ \E c \in Slots, r \in Requests : RDeleteAllStart(c, r)
  \/ \E c \in Slots : RDeleteAllRemove(c)
  \/ \E c \in Slots, r \in Requests, f \in Filters, limit \in Limits : RGetTasks(c, r, f, limit)
  \/ \E c \in Slots, r \in Requests, p \in Prompts : RGenerateImage(c, r, p)
  \/ \E c \in Slots, id \in PathIds, body \in PatchBodies : RPatchGet(c, id, body)
  \/ \E c \in Slots : RPatchSet(c)
  \/ \E c \in Slots, id \in PathIds : RDeleteRoute(c, id)

SpecRace == InitRace /\ [][NextRace]_vars

(***************************************************************************)
(* Properties of the image generation pipelines (SpecPipe)                 *)
(***************************************************************************)

\* What the properties call a candidate's outcome, read off the answer alone.
FailsUnsupported(r) ==
  r.kind = "http" /\ (r.status = 404 \/ r.body \in {"model_not_found", "Unknown parameter"})

FailsOther(r) ==
  r.kind = "http" /\ r.status # 404 /\ r.body \notin {"model_not_found", "Unknown parameter"}

SucceedsOversized(r) == r.kind = "ok" /\ r.hasImg /\ r.len >= 1400000

SucceedsAndFits(r) == r.kind = "ok" /\ r.hasImg /\ r.len >= 1 /\ r.len <= 1399999

IsOutputOf(att, k, r) ==
  /\ att # Null
  /\ att.type = Candidates[k].mime
  /\ att.dataUrl.cand = k
  /\ att.dataUrl.len = r.len

\* C3: with answers [unsupported, oversized, fits] the attachment pipeline
\* goes on to the third candidate, returns the third candidate's output and
\* has issued exactly three requests; it never issues a fourth request.
C3_ThirdCandidateReturned ==
  /\ Len(ireqs) <= 3
  /\ (Len(ireqs) >= 2 /\ FailsUnsupported(ireqs[1].resp) /\ SucceedsOversized(ireqs[2].resp))
       => /\ Len(ireqs) = 2 => ipc = "a3"
          /\ (Len(ireqs) = 3 /\ SucceedsAndFits(ireqs[3].resp))
               => ipc = "ret" /\ IsOutputOf(iresult, 3, ireqs[3].resp)

C3_Witness ==
  /\ ipc = "ret" /\ Len(ireqs) = 3
  /\ FailsUnsupported(ireqs[1].resp)
  /\ SucceedsOversized(ireqs[2].resp)
  /\ SucceedsAndFits(ireqs[3].resp)
  /\ iresult # Null /\ iresult.dataUrl.cand = 3

\* C4: when the first candidate succeeds with a payload within the ceiling,
\* the run has made exactly one external request and returns that output,
\* in the attachment pipeline and in POST /api/generate-image alike.
C4_FirstCandidateOnly ==
  /\ (Len(ireqs) >= 1 /\ SucceedsAndFits(ireqs[1].resp))
       => Len(ireqs) = 1 /\ ipc = "ret" /\ IsOutputOf(iresult, 1, ireqs[1].resp)
  /\ (Len(greqs) >= 1 /\ SucceedsAndFits(greqs[1].resp))
       => /\ Len(greqs) = 1 /\ gpc = "done"
          /\ gresponse.status = 200
          /\ gresponse.image.cand = 1 /\ gresponse.image.len = greqs[1].resp.len

C4_Witness ==
  /\ ipc = "ret" /\ Len(ireqs) = 1 /\ SucceedsAndFits(ireqs[1].resp)
  /\ iresult # Null /\ iresult.dataUrl.cand = 1

\* C5: a candidate failing with an error outside the candidate-unavailable
\* class (auth, rate limit) ends the run at once: it is the last request and
\* no image is returned, in both pipelines.
C5_AbortOnOtherError ==
  /\ \A k \in 1..Len(ireqs) :
       FailsOther(ireqs[k].resp) => k = Len(ireqs) /\ ipc = "ret" /\ iresult = Null
  /\ \A k \in 1..Len(greqs) :
       FailsOther(greqs[k].resp)
         => k = Len(greqs) /\ gpc = "done" /\ gresponse.image = Null

\* C6: candidates are requested one after another in the fixed order, each
\* only after all earlier ones were rejected; the result is the output of
\* the lowest-index candidate that succeeded below the ceiling, Null exactly
\* when there is none, and never at or above the ceiling.
C6_FirstFittingCandidate ==
  /\ Len(ireqs) <= Len(Candidates)
  /\ \A i \in 1..Len(ireqs) :
       /\ ireqs[i].cand = i
       /\ ireqs[i].model = <<"gpt-image-1", "gpt-image-1", "dall-e-3">>[i]
       /\ \A j \in 1..(i - 1) : ~SucceedsAndFits(ireqs[j].resp)
  /\ ipc = "ret" =>
       LET fit == {i \in 1..Len(ireqs) : SucceedsAndFits(ireqs[i].resp)} IN
         /\ (iresult = Null) <=> (fit = {})
         /\ fit # {} =>
              LET k == CHOOSE i \in fit : \A j \in fit : i <= j
              IN IsOutputOf(iresult, k, ireqs[k].resp) /\ iresult.dataUrl.len < 1400000
         /\ (fit = {} /\ apiKey) => Len(ireqs) = Len(Candidates)
  /\ ipc \in {"a1", "a2", "a3"} => iresult = Null

C6_Witness ==
  /\ ipc = "ret" /\ Len(ireqs) = 2
  /\ SucceedsOversized(ireqs[1].resp)
  /\ iresult # Null /\ iresult.dataUrl.cand = 2 /\ iresult.dataUrl.len = 1399999

(***************************************************************************)
(* Properties of create_task / update_task (SpecTool)                      *)
(***************************************************************************)

\* The store contract's identifiable "payload too large" error.
PayloadTooLarge(e) == e = "entity_too_large" \/ e = "2mb"

IsMutation == targs.tool \in {"create_task", "update_task"}

\* The attachments the retried write must carry: none on create, the stored
\* ones on update.
WithoutNewAttachments(task) ==
  [task EXCEPT !.attachments =
     IF targs.tool = "create_task" THEN <<>> ELSE texisting.attachments]

\* C7: a first write that carried new attachments and failed as too large is
\* followed by exactly one retry of the same write without them; when the
\* retry succeeds the result reports attachedImages = 0 and the dropped-image
\* note; when it fails its error is thrown; there is never a third write.
C7_RetryOnceWithoutAttachments ==
  /\ Len(twrites) <= 2
  /\ (IsMutation /\ Len(twrites) >= 1 /\ Len(tatt) > 0 /\ PayloadTooLarge(twrites[1].outcome))
       => /\ tpc \in {"get2", "set2", "done"}
          /\ tpc = "done" => Len(twrites) = 2
          /\ Len(twrites) = 2 =>
               /\ tpc = "done"
               /\ twrites[2].task = WithoutNewAttachments(twrites[1].task)
               /\ twrites[2].outcome = "ok" =>
                    /\ tresult.kind = "return" /\ tresult.success
                    /\ tresult.attachedImages = 0
                    /\ tresult.note = DroppedNote
                    /\ tresult.task = twrites[2].task
                    /\ store[tresult.task.id] = tresult.task
               /\ twrites[2].outcome # "ok" =>
                    tresult.kind = "throw" /\ tresult.error = twrites[2].outcome
  /\ Len(twrites) = 2 => Len(tatt) > 0 /\ PayloadTooLarge(twrites[1].outcome)

C7_Witness ==
  /\ tpc = "done" /\ targs.tool = "update_task" /\ Len(twrites) = 2
  /\ twrites[1].outcome = "entity_too_large" /\ Len(twrites[1].task.attachments) > 0
  /\ twrites[2].outcome = "ok"
  /\ tresult.note = DroppedNote /\ tresult.attachedImages = 0

\* C8: a first write that failed with an error other than too large, or as
\* too large without new attachments, is the only write of the call, and
\* that same error is what the call throws; the store is left as it was.
C8_OtherErrorsPropagate ==
  (IsMutation /\ Len(twrites) >= 1 /\ twrites[1].outcome # "ok"
     /\ (~PayloadTooLarge(twrites[1].outcome) \/ Len(tatt) = 0))
    => /\ Len(twrites) = 1
       /\ tpc = "done"
       /\ tresult.kind = "throw"
       /\ tresult.error = twrites[1].outcome
       /\ IF targs.tool = "create_task"
            THEN twrites[1].task.id \notin DOMAIN store
            ELSE store[tmatch.id] = texisting

C8_Witness ==
  /\ tpc = "done" /\ targs.tool = "create_task" /\ Len(twrites) = 1
  /\ twrites[1].outcome = "other" /\ Len(tatt) > 0
  /\ tresult.kind = "throw" /\ tresult.error = "other"

\* The prompts of successful generate_image results in the history, read off
\* the flattened parts by position.
HistoryPromptIdx ==
  {i \in 1..Len(Flatten(messages)) :
     LET part == Flatten(messages)[i] IN
       /\ "generate_image" \in {part.toolName, IF part.type = "tool-generate_image" THEN "generate_image" ELSE part.type}
       /\ part.state = "output-available"
       /\ part.success /\ part.prompt \in Prompts}

HistoryLatestPrompt ==
  Flatten(messages)[CHOOSE i \in HistoryPromptIdx : \A j \in HistoryPromptIdx : j <= i].prompt

IsSuffix(suffix, s) ==
  /\ Len(suffix) <= Len(s)
  /\ SubSeq(s, Len(s) - Len(suffix) + 1, Len(s)) = suffix

\* A create_task / update_task call with attach_generated_images = true
\* leaves its synchronous start (for update_task: with a matched task).
StartsAttachGenerated ==
  /\ tpc = "idle" /\ tpc' \in {"gen", "set1", "get1"}
  /\ targs'.tool \in {"create_task", "update_task"}
  /\ targs'.attach_generated_images

\* C9: such a call (a) attaches the cached images and starts no generation
\* when the cache is non-empty, else (b) hands the last pending prompt of
\* this request to the pipeline, else (c) hands the latest successful
\* generate_image prompt of the history, else generates nothing; and once
\* the cache is non-empty no image request is issued in the request.
C9_Step ==
  /\ StartsAttachGenerated =>
       IF Len(generatedImages) > 0
         THEN /\ tpc' # "gen" /\ ipc' = "idle" /\ ireqs' = <<>> /\ iprompt' = NoPrompt
              /\ IsSuffix(generatedImages, tatt')
         ELSE IF Len(pendingImagePrompts) > 0
           THEN /\ tpc' = "gen" /\ ipc' \in {"a1", "ret"}
                /\ iprompt' = pendingImagePrompts[Len(pendingImagePrompts)]
           ELSE IF HistoryPromptIdx # {}
             THEN tpc' = "gen" /\ ipc' \in {"a1", "ret"} /\ iprompt' = HistoryLatestPrompt
             ELSE tpc' # "gen" /\ ipc' = "idle" /\ iprompt' = NoPrompt
  /\ Len(generatedImages) > 0 => Len(ireqs') <= Len(ireqs)

C9_ResolutionOrder == [][C9_Step]_vars

C9_Witness ==
  /\ tpc = "done" /\ IsMutation /\ targs.attach_generated_images
  /\ ncalls >= 1 /\ Len(generatedImages) > 0
  /\ ireqs = <<>> /\ iprompt = NoPrompt
  /\ tresult.kind = "return" /\ tresult.success /\ tresult.attachedImages >= 1

\* No attachment of the sequence came out of the generation pipeline.
NoGenerated(atts) == \A i \in 1..Len(atts) : atts[i].dataUrl.cand = 0

\* The task a successful call returned carries the fields the call supplied.
HasSuppliedFields(task) ==
  IF targs.tool = "create_task"
    THEN /\ task.title = targs.title
         /\ task.priority = (IF targs.priority = Absent THEN "medium" ELSE targs.priority)
         /\ task.description = (IF targs.description = Absent THEN NullStr ELSE targs.description)
         /\ task.status = "todo"
    ELSE /\ targs.status # Absent => task.status = targs.status
         /\ targs.priority # Absent => task.priority = targs.priority
         /\ targs.new_title # NoTitle => task.title = targs.new_title
         /\ targs.description # Absent => task.description = targs.description
         /\ targs.due_date # Absent => task.dueDate = targs.due_date

\* C10: with attach_generated_images = true, a pipeline that returns no
\* image (or no prompt to hand to it) raises no error, adds no generated
\* attachment and leaves the cache as it was, and the call goes on to its
\* store write; the write stores the remaining fields, and the only errors
\* such a call throws are the store's.
C10_Step ==
  /\ (tpc = "gen" /\ tpc' # "gen" /\ iresult = Null)
       => /\ tpc' \in {"set1", "get1"}
          /\ tresult' = Null
          /\ tatt' = tatt
          /\ generatedImages' = generatedImages
  /\ (StartsAttachGenerated /\ Len(generatedImages) = 0
        /\ Len(pendingImagePrompts) = 0 /\ HistoryPromptIdx = {})
       => /\ tpc' \in {"set1", "get1"}
          /\ tresult' = Null
          /\ NoGenerated(tatt')
          /\ generatedImages' = generatedImages

C10_AfterCall ==
  (tpc = "done" /\ IsMutation /\ targs.attach_generated_images
     /\ Len(generatedImages) = 0 /\ tresult # NotFound)
    => /\ Len(twrites) >= 1
       /\ NoGenerated(twrites[1].task.attachments)
       /\ tresult.kind = "throw" => tresult.error = twrites[Len(twrites)].outcome
       /\ tresult.kind = "return" =>
            /\ tresult.success
            /\ HasSuppliedFields(tresult.task)
            /\ NoGenerated(tresult.task.attachments)
            /\ store[tresult.task.id] = tresult.task

C10_BestEffort == [][C10_Step /\ C10_AfterCall']_vars

C10_Witness ==
  /\ tpc = "done" /\ targs.tool = "create_task" /\ targs.attach_generated_images
  /\ iprompt # NoPrompt /\ Len(ireqs) = 3 /\ iresult = Null
  /\ Len(generatedImages) = 0
  /\ tresult.kind = "return" /\ tresult.success
  /\ tresult.task.title = targs.title /\ tresult.task.priority = "high"

(***************************************************************************)
(* Properties of the round loop (SpecLoop)                                 *)
(***************************************************************************)

\* C1: whatever the LLM answers, a chat request never performs more than 20 LLM
\* rounds, also when every round asks for function calls.
C1_RoundCeiling == lsteps <= 20

C1_Witness == lsteps = 20 /\ lphase = "Done" /\ Len(lcalls) > 0 /\ Len(lresults) = Len(lcalls)

ResultsFor(id) == {j \in 1..Len(lresults) : lresults[j].id = id}

\* C2: whenever the next LLM round is about to be requested (and when the
\* loop ends), every function call of the round before has exactly one
\* result with its call id, also when its execute threw, and there is no
\* result without a call.
C2_NoOrphanedCalls ==
  /\ lphase \in {"AwaitingModel", "Done"}
       => \A i \in 1..Len(lcalls) : Cardinality(ResultsFor(lcalls[i].id)) = 1
  /\ \A i \in 1..Len(lcalls) : Cardinality(ResultsFor(lcalls[i].id)) <= 1
  /\ \A j \in 1..Len(lresults) : \E i \in 1..Len(lcalls) : lcalls[i].id = lresults[j].id

C2_Witness ==
  /\ lphase = "AwaitingModel" /\ lsteps >= 1 /\ Len(lcalls) = 2
  /\ \E j \in 1..Len(lresults) :
       /\ lresults[j].kind = "tool-error"
       /\ \E i \in 1..Len(lcalls) :
            lcalls[i].id = lresults[j].id /\ lcalls[i].name = "create_task"

(***************************************************************************)
(* Properties of the attachment resolver (SpecTool)                        *)
(***************************************************************************)

\* The parts of the whole conversation, in message and part order.
RECURSIVE AllParts(_, _)
AllParts(msgs, m) == IF m > Len(msgs) THEN <<>> ELSE msgs[m] \o AllParts(msgs, m + 1)

StartsWithImage(mediaType) == mediaType \in {"image/png", "image/jpeg"}

IsImageFile(part) == part.type = "file" /\ StartsWithImage(part.mediaType)

IsImageFileWithUrl(part) == IsImageFile(part) /\ part.url # Absent

\* The conversation holds no uploaded image at all.
NoUploadedImages == SelectSeq(AllParts(messages, 1), IsImageFile) = <<>>

\* An attachment taken from the chat (not out of the generation pipeline).
IsChatAtt(att) == att.dataUrl.cand = 0

\* The attachments the call's store writes must carry when it adds none.
Untouched == IF targs.tool = "create_task" THEN <<>> ELSE texisting.attachments

\* C11: with attach_chat_images = true and no uploaded image in the
\* conversation, the resolver adds no chat attachment and raises nothing:
\* without attach_generated_images the attachment list is empty, create_task
\* stores attachments = [], update_task writes the task's own attachments
\* back unchanged, and the only error such a call can throw is the store's.
C11_NoChatImages ==
  (IsMutation /\ targs.attach_chat_images /\ NoUploadedImages)
    => /\ SelectSeq(tatt, IsChatAtt) = <<>>
       /\ ~targs.attach_generated_images =>
            /\ tatt = <<>>
            /\ \A i \in 1..Len(twrites) : twrites[i].task.attachments = Untouched
            /\ (tpc = "done" /\ tresult.kind = "throw")
                 => Len(twrites) = 1 /\ tresult.error = twrites[1].outcome
            /\ (tpc = "done" /\ tresult.kind = "return" /\ tresult.success)
                 => /\ tresult.attachedImages = 0
                    /\ store[tresult.task.id].attachments = Untouched

C11_Witness ==
  /\ tpc = "done" /\ targs.tool = "create_task"
  /\ targs.attach_chat_images /\ ~targs.attach_generated_images
  /\ NoUploadedImages
  /\ \E i \in 1..Len(AllParts(messages, 1)) : AllParts(messages, 1)[i].type = "file"
  /\ tresult.kind = "return" /\ tresult.success
  /\ store[tresult.task.id].attachments = <<>>

\* What a chat attachment list must be for the file parts `expected`.
AttachesExactly(expected) ==
  /\ Len(chatImages) = Len(expected)
  /\ \A i \in 1..Len(expected) :
       /\ chatImages[i].type = expected[i].mediaType
       /\ chatImages[i].dataUrl.url = expected[i].url
  /\ (IsMutation /\ tpc # "idle" /\ ~(tpc = "done" /\ tresult = NotFound))
       => LET want == IF targs.attach_chat_images THEN chatImages ELSE <<>> IN
            /\ SelectSeq(tatt, IsChatAtt) = want
            /\ SubSeq(tatt, 1, Len(want)) = want
            /\ Len(twrites) >= 1 =>
                 twrites[1].task.attachments = Untouched \o tatt

\* C12 as stated: with attach_chat_images = true the attachments added are
\* exactly the file parts of the whole conversation whose mediaType starts
\* with "image/", in message and part order.
C12_AllImageFileParts ==
  AttachesExactly(SelectSeq(AllParts(messages, 1), IsImageFile))

\* C12 amended: the attachments added are exactly the file parts of the
\* whole conversation whose mediaType starts with "image/" and which carry
\* a url, in message and part order, each with its mediaType and url; a file
\* part without a url, with another mediaType, or a part of another type
\* yields none.
C12_ImageFilePartsWithUrl ==
  AttachesExactly(SelectSeq(AllParts(messages, 1), IsImageFileWithUrl))

C12_Witness ==
  /\ tpc = "done" /\ targs.tool = "update_task" /\ targs.attach_chat_images
  /\ \E i \in 1..Len(AllParts(messages, 1)) :
       IsImageFile(AllParts(messages, 1)[i]) /\ AllParts(messages, 1)[i].url = Absent
  /\ tresult.kind = "return" /\ tresult.success /\ tresult.attachedImages = 1
  /\ Len(store[tresult.task.id].attachments) >= 2

(***************************************************************************)
(* Properties of concurrent executions on the task store (SpecRace)        *)
(***************************************************************************)

IsPrefix(p, s) == Len(p) <= Len(s) /\ SubSeq(s, 1, Len(p)) = p

\* Execution c is an update_task call whose store write succeeds in this step.
UpdateWrites(c) ==
  /\ calls[c].tool = "update_task" /\ calls[c].pc = "set"
  /\ calls'[c].pc = "done" /\ calls'[c].result.kind = "return"

\* C13: whenever the store write of an update_task call succeeds, the list
\* of attachments the task had in the store just before the write is a
\* prefix of the list it has after it (also on the retry without images).
C13_Step ==
  \A c \in Slots :
    (UpdateWrites(c) /\ calls[c].match.id \in DOMAIN store
       /\ store[calls[c].match.id].attachments # NullAttachments)
      => IsPrefix(store[calls[c].match.id].attachments,
                  store'[calls[c].match.id].attachments)

Reflects(c, o, task) ==
  LET a == calls[c].args
      b == calls[o].args
  IN /\ (a.status # Absent /\ b.status = Absent) => task.status = a.status
     /\ (a.priority # Absent /\ b.priority = Absent) => task.priority = a.priority
     /\ (a.due_date # Absent /\ b.due_date = Absent) => task.dueDate = a.due_date
     /\ calls[c].result.attachedImages > 0 =>
          \A i \in 1..Len(calls[c].newImages) :
            \E j \in 1..Len(task.attachments) : task.attachments[j] = calls[c].newImages[i]

UpdateSucceeded(c) ==
  /\ calls[c].tool = "update_task" /\ calls[c].pc = "done"
  /\ calls[c].result.kind = "return" /\ calls[c].result.success
  /\ calls[c].result.task # Null

\* C14: when two update_task calls of one request, in flight together, have
\* resolved to the same task and both returned success, the stored task
\* carries the changes of both (the fields each supplied, the attachments
\* each appended).
C14_NoLostUpdate ==
  (/\ UpdateSucceeded(1) /\ UpdateSucceeded(2)
   /\ calls[1].req = calls[2].req
   /\ calls[1].match.id = calls[2].match.id
   /\ calls[1].match.id \in DOMAIN store)
    => /\ Reflects(1, 2, store[calls[1].match.id])
       /\ Reflects(2, 1, store[calls[1].match.id])

\* C15: when the task an update_task call matched is gone from the store at
\* the time its updateTask runs, the call returns a not-found result
\* (success = false with an error), and its write does not bring the task
\* back.
C15_Step ==
  \A c \in Slots :
    (/\ calls[c].tool = "update_task" /\ calls[c].pc \in {"get", "set"}
     /\ calls'[c] # calls[c]
     /\ calls[c].match.id \notin DOMAIN store)
      => /\ calls[c].match.id \notin DOMAIN store'
         /\ calls[c].pc = "get" =>
              /\ calls'[c].pc = "done"
              /\ calls'[c].result.kind = "return"
              /\ calls'[c].result.success = FALSE
              /\ calls'[c].result.error # Absent

C15_NotFoundRace == [][C15_Step]_vars

\* title contains title_search, letter case ignored.
ContainsCI(title, search) ==
  \E i \in 0..(Len(title) - Len(search)) :
    \A k \in 1..Len(search) : ToLowerChar(title[i + k]) = ToLowerChar(search[k])

Matching(search) == {id \in DOMAIN store : ContainsCI(store[id].title, search)}

Newest(ids) == CHOOSE id \in ids : \A j \in ids : store[j].createdAt <= store[id].createdAt

\* C16: an update_task or delete_task call takes as its target the newest
\* task whose title contains title_search case-insensitively; with no such
\* task it returns { success: false, error } without throwing; the lookup
\* changes nothing in the store, and the call's later write or removal
\* touches no task but its target.
C16_Step ==
  \A c \in Slots :
    /\ (calls[c].pc = "idle" /\ calls'[c].tool \in {"update_task", "delete_task"})
         => /\ store' = store
            /\ IF Matching(calls'[c].args.title_search) = {}
                 THEN /\ calls'[c].pc = "done"
                      /\ calls'[c].result.kind = "return"
                      /\ calls'[c].result.success = FALSE
                      /\ calls'[c].result.error # Absent
                 ELSE /\ calls'[c].pc # "done"
                      /\ calls'[c].match = store[Newest(Matching(calls'[c].args.title_search))]
    /\ (calls[c].tool \in {"update_task", "delete_task"} /\ calls'[c] # calls[c])
         => \A id \in DOMAIN store \ {calls[c].match.id} :
              id \in DOMAIN store' /\ store'[id] = store[id]
    /\ (calls[c].tool = "delete_task" /\ calls[c].pc = "rm" /\ calls'[c].pc = "done"
          /\ calls'[c].result.kind = "return")
         => calls[c].match.id \notin DOMAIN store'

C16_FirstMatch == [][C16_Step]_vars

C16_Witness ==
  \E c \in Slots :
    /\ calls[c].tool = "delete_task" /\ calls[c].pc = "done"
    /\ calls[c].args.title_search = <<"p", "E">>
    /\ calls[c].result.kind = "return" /\ calls[c].result.success
    /\ calls[c].match.title = <<"a", "P", "E">> /\ calls[c].match.id = 2
    /\ DOMAIN store = {1} /\ store[1].title = <<"P", "e", "t">>

\* The calendar day a dueDate string names.
DueDay(s) ==
  CASE s = "2020-01-01" -> <<2020, 1, 1>>
    [] s = "2026-11-01" -> <<2026, 11, 1>>
    [] s = "2026-11-02" -> <<2026, 11, 2>>
    [] s = "2030-12-25" -> <<2030, 12, 25>>
    [] s = "12/25/2030" -> <<2030, 12, 25>>

Earlier(a, b) ==
  \/ a[1] < b[1]
  \/ a[1] = b[1] /\ a[2] < b[2]
  \/ a[1] = b[1] /\ a[2] = b[2] /\ a[3] < b[3]

DueBeforeToday(t) == t.dueDate # NullStr /\ Earlier(DueDay(t.dueDate), DueDay("2026-11-01"))

\* C17: get_tasks with filter "overdue" (and no limit) returns exactly the
\* stored tasks whose due date is a day before today and whose status is
\* not done, each once; a task without a due date and a done task never
\* appear in it.
C17_Step ==
  \A c \in Slots :
    (/\ calls[c].pc = "idle" /\ calls'[c].tool = "get_tasks"
     /\ calls'[c].filter = "overdue" /\ calls'[c].limit = 0)
      => LET tasks == calls'[c].result.tasks IN
           /\ {tasks[i] : i \in 1..Len(tasks)}
                = {store[id] : id \in {j \in DOMAIN store :
                                         DueBeforeToday(store[j]) /\ store[j].status # "done"}}
           /\ \A i, j \in 1..Len(tasks) : tasks[i] = tasks[j] => i = j

C17_OverdueExact == [][C17_Step]_vars

\* C18: the attachments of every stored task are a list of attachments,
\* never null.
C18_AttachmentsWellFormed ==
  \A id \in DOMAIN store :
    /\ store[id].attachments # NullAttachments
    /\ \A i \in 1..Len(store[id].attachments) : store[id].attachments[i].type # "null"

\* The prompts a call of request r may resolve to, from r's own closure.
OwnPrompts(r) ==
  IF Len(reqs[r].pendingImagePrompts) > 0
    THEN reqs[r].pendingImagePrompts
    ELSE extractGeneratedImagePrompts(reqs[r].messages)

\* C19: a request starts with an empty pending-prompt list and an empty
\* generated-image cache; only the request's own calls change them; and an
\* attach_generated_images call resolves from its own request's cache,
\* pending prompts and history, whatever the other request has generated.
C19_Step ==
  /\ \A r \in Requests :
       /\ (~reqs[r].started /\ reqs'[r].started)
            => reqs'[r].generatedImages = <<>> /\ reqs'[r].pendingImagePrompts = <<>>
       /\ (reqs[r].started /\ reqs'[r] # reqs[r])
            => \E c \in Slots : calls'[c] # calls[c] /\ calls'[c].req = r
  /\ \A c \in Slots :
       (/\ calls[c].pc = "idle" /\ calls'[c].tool = "update_task"
        /\ calls'[c].args.attach_generated_images /\ calls'[c].pc # "done")
         => LET r == calls'[c].req IN
              IF Len(reqs[r].generatedImages) > 0
                THEN /\ calls'[c].pc = "get"
                     /\ IsSuffix(reqs[r].generatedImages, calls'[c].newImages)
                ELSE IF Len(OwnPrompts(r)) > 0
                  THEN /\ calls'[c].pc = "gen"
                       /\ calls'[c].prompt = OwnPrompts(r)[Len(OwnPrompts(r))]
                  ELSE /\ calls'[c].pc = "get"
                       /\ NoGenerated(calls'[c].newImages)

C19_RequestScoped == [][C19_Step]_vars

C19_Witness ==
  \E c \in Slots, d \in Slots :
    /\ calls[c].tool = "generate_image" /\ calls[c].req = 1 /\ calls[c].pc = "done"
    /\ reqs[1].pendingImagePrompts = <<"cat">>
    /\ calls[d].tool = "update_task" /\ calls[d].req = 2
    /\ calls[d].args.attach_generated_images
    /\ calls[d].pc = "done" /\ calls[d].result.success
    /\ calls[d].prompt = "logo"
    /\ reqs[2].pendingImagePrompts = <<>> /\ Len(reqs[2].generatedImages) = 1
    /\ reqs[1].generatedImages = <<>>

(***************************************************************************)
(* Properties of the tools' retries (SpecToolFair).                        *)
(***************************************************************************)

\* C20: a create_task or update_task call issues at most three image
\* generation requests and attempts at most two store writes, and once begun
\* it ends with a returned result or a thrown error, whatever the image
\* service and the store answer.
C20_BoundedRetry ==
  /\ [](Len(ireqs) <= 3 /\ Len(twrites) <= 2)
  /\ (tpc # "idle") ~> (tpc = "done" /\ tresult # Null)

\* A call that used all three candidates and both store writes.
C20_Witness ==
  /\ tpc = "done" /\ targs.tool \in {"create_task", "update_task"}
  /\ Len(ireqs) = 3 /\ Len(twrites) = 2

(***************************************************************************)
(* Properties of the scenarios (SpecTool)                                  *)
(***************************************************************************)

\* C21: when generate_image(prompt) was called earlier in the request (the
\* image service being configured, so that the user was shown an image) and
\* a create_task call with attach_generated_images = true alone then returns
\* its task, the task has exactly one attachment and the call has issued no
\* request to the image service for it.  (The image the user was shown is
\* fetched by the browser from POST /api/generate-image; generate_image
\* itself only records the prompt.)
C21_SameTurnCached ==
  (/\ tpc = "done" /\ targs.tool = "create_task"
   /\ targs.attach_generated_images /\ ~targs.attach_chat_images
   /\ apiKey /\ Len(pendingImagePrompts) > 0
   /\ tresult.kind = "return" /\ tresult.success /\ tresult.note = Absent)
    => /\ Len(tresult.task.attachments) = 1
       /\ ireqs = <<>>

\* The uploaded images of the conversation: its image file parts with a url.
Uploads == SelectSeq(AllParts(messages, 1), IsImageFileWithUrl)

\* A create_task call that asked for the chat images only has returned its task.
CreatedWithChatImages ==
  /\ tpc = "done" /\ targs.tool = "create_task"
  /\ targs.attach_chat_images /\ ~targs.attach_generated_images
  /\ Len(Uploads) >= 1
  /\ tresult.kind = "return" /\ tresult.success

\* C22 as stated: such a task has the title of the call and exactly one
\* attachment, of the uploaded image's mediaType, whatever else the
\* conversation contains.
C22_ExactlyOne ==
  CreatedWithChatImages
    => /\ tresult.task.title = targs.title
       /\ Len(tresult.task.attachments) = 1
       /\ tresult.task.attachments[1].type = Uploads[Len(Uploads)].mediaType

\* C22 amended: such a task has the title of the call and one attachment per
\* uploaded image of the whole conversation, in order and each of its
\* image's mediaType (exactly one when the conversation holds one uploaded
\* image), unless the store rejected the first write as too large: then the
\* task has no attachment and the result carries the note.
C22_OnePerUpload ==
  CreatedWithChatImages
    => /\ tresult.task.title = targs.title
       /\ store[tresult.task.id] = tresult.task
       /\ IF tresult.note = Absent
            THEN /\ Len(tresult.task.attachments) = Len(Uploads)
                 /\ \A i \in 1..Len(Uploads) :
                      /\ tresult.task.attachments[i].type = Uploads[i].mediaType
                      /\ tresult.task.attachments[i].dataUrl.url = Uploads[i].url
            ELSE /\ tresult.task.attachments = <<>>
                 /\ Len(twrites) = 2 /\ twrites[1].outcome \in {"entity_too_large", "2mb"}

C22_Witness ==
  /\ CreatedWithChatImages /\ tresult.note = Absent
  /\ Len(Uploads) = 1 /\ Len(AllParts(messages, 1)) > 3
  /\ targs.title = <<"F", "i", "x">>
  /\ Len(tresult.task.attachments) = 1
  /\ tresult.task.attachments[1].type = "image/jpeg"

(***************************************************************************)
(* Properties of failed requests in the pipelines (SpecPipe)               *)
(***************************************************************************)

\* The request was not answered: the fetch was rejected (network failure,
\* timeout).
TimedOut(r) == r.kind = "throw"

\* C23: in both pipelines a request that is not answered is the failure of
\* its candidate only: the pipeline goes on to the next candidate (after the
\* last one it ends without an image), it returns the output of a later
\* candidate that succeeds within the ceiling, and it never ends with the
\* failure itself (an exception, or the 500 answer of the handler's catch).
C23_TimeoutAdvances ==
  /\ \A k \in 1..Len(ireqs) :
       TimedOut(ireqs[k].resp) =>
         /\ k = Len(ireqs) =>
              IF k < Len(Candidates)
                THEN ipc = <<"a2", "a3">>[k]
                ELSE ipc = "ret" /\ iresult = Null
         /\ (ipc = "ret" /\ SucceedsAndFits(ireqs[Len(ireqs)].resp)) =>
              IsOutputOf(iresult, Len(ireqs), ireqs[Len(ireqs)].resp)
  /\ \A k \in 1..Len(greqs) :
       TimedOut(greqs[k].resp) =>
         /\ k = Len(greqs) =>
              IF k < Len(models)
                THEN gpc = "loop" /\ gidx = k + 1
                ELSE gpc = "done" /\ gresponse.status = 502
         /\ gpc = "done" => gresponse.status # 500

(***************************************************************************)
(* Properties of the answer at the round ceiling (SpecLoop)                *)
(***************************************************************************)

\* C24: when the loop stops at the round ceiling while the last round still
\* asked for function calls, the caller gets a normal answer (not an error
\* response) that carries the text produced so far or else a notice that
\* the budget was exceeded: never an answer with neither.
C24_CeilingAnswer ==
  (lphase = "Done" /\ lsteps = StepLimit /\ Len(lcalls) > 0)
    => /\ Answer.status = 200
       /\ Answer.text \/ Answer.notice

(***************************************************************************)
(* Properties of the generated-image cache under concurrent calls          *)
(* (SpecRace)                                                              *)
(***************************************************************************)

\* The attachments of the list that came out of the generation pipeline.
GeneratedOf(atts) == SelectSeq(atts, LAMBDA att : att.dataUrl.cand # 0)

\* Call c of a request is past its image resolution with attach_generated_images.
ResolvedGenerated(c) ==
  /\ calls[c].tool = "update_task" /\ calls[c].args.attach_generated_images
  /\ calls[c].pc \in {"get", "set", "done"} /\ calls[c].match # Null

\* C25: of the calls of one request that set attach_generated_images, no two
\* are inside the generation pipeline for the same prompt at once, the
\* request's cache never holds more than the one generated image, and all
\* of them attach the same generated image.
C25_SingleGeneration ==
  \A c, d \in Slots :
    (/\ c # d /\ calls[c].req = calls[d].req
     /\ calls[c].tool = "update_task" /\ calls[c].args.attach_generated_images
     /\ calls[d].tool = "update_task" /\ calls[d].args.attach_generated_images)
      => /\ ~(calls[c].pc = "gen" /\ calls[d].pc = "gen" /\ calls[c].prompt = calls[d].prompt)
         /\ Len(reqs[calls[c].req].generatedImages) <= 1
         /\ (ResolvedGenerated(c) /\ ResolvedGenerated(d)
               /\ GeneratedOf(calls[c].newImages) # <<>> /\ GeneratedOf(calls[d].newImages) # <<>>)
              => GeneratedOf(calls[c].newImages) = GeneratedOf(calls[d].newImages)

(***************************************************************************)
(* Frame properties of the tools (SpecTool)                                *)
(***************************************************************************)

\* C26: a step of a create_task call changes the store only when the call
\* returns its task: then exactly one task is added, every task held before
\* is unchanged, and the task returned is the task stored, with status todo,
\* the call's priority or medium, and no attachment when the first write was
\* rejected as too large.  A rejected write, and a call that ends in an
\* error, add nothing.
C26_Step ==
  (targs'.tool = "create_task")
    => IF tpc # "done" /\ tpc' = "done" /\ tresult'.kind = "return"
         THEN /\ tresult'.success
              /\ Cardinality(DOMAIN store') = Cardinality(DOMAIN store) + 1
              /\ \A id \in DOMAIN store : id \in DOMAIN store' /\ store'[id] = store[id]
              /\ tresult'.task.id \in DOMAIN store' \ DOMAIN store
              /\ store'[tresult'.task.id] = tresult'.task
              /\ tresult'.task.status = "todo"
              /\ tresult'.task.priority = (IF targs.priority = Absent THEN "medium" ELSE targs.priority)
              /\ Len(twrites') = 2 =>
                   /\ twrites'[1].outcome \in {"entity_too_large", "2mb"}
                   /\ tresult'.task.attachments = <<>>
                   /\ tresult'.note # Absent
         ELSE store' = store

C26_ExactlyOneTask == [][C26_Step]_vars

C26_Witness ==
  /\ tpc = "done" /\ targs.tool = "create_task" /\ targs.priority = Absent
  /\ Len(twrites) = 2 /\ Len(twrites[1].task.attachments) >= 1
  /\ tresult.kind = "return" /\ tresult.note # Absent
  /\ DOMAIN store = {tresult.task.id}
  /\ store[tresult.task.id].attachments = <<>> /\ store[tresult.task.id].priority = "medium"

\* The value a field must have after an update that supplied `given`.
KeptOrSet(given, none, old, new) == IF given = none THEN new = old ELSE new = given

\* C27: a step of an update_task call changes the store only by writing the
\* matched task: no task is added or removed, every other task is unchanged,
\* id and createdAt of the matched task stay, each of status, priority,
\* title, description and dueDate keeps its value unless the call supplied
\* it and takes the supplied value otherwise, also on the retry without
\* attachments, and the earlier attachments stay in place (all of them and
\* nothing else on the retry).
C27_Step ==
  (targs'.tool = "update_task" /\ store' # store)
    => LET old == store[tmatch.id]
           new == store'[tmatch.id]
       IN /\ tpc \in {"set1", "set2"}
          /\ DOMAIN store' = DOMAIN store
          /\ \A id \in DOMAIN store \ {tmatch.id} : store'[id] = store[id]
          /\ new.id = old.id /\ new.createdAt = old.createdAt
          /\ KeptOrSet(targs.status, Absent, old.status, new.status)
          /\ KeptOrSet(targs.priority, Absent, old.priority, new.priority)
          /\ KeptOrSet(targs.new_title, NoTitle, old.title, new.title)
          /\ KeptOrSet(targs.description, Absent, old.description, new.description)
          /\ KeptOrSet(targs.due_date, Absent, old.dueDate, new.dueDate)
          /\ IsPrefix(old.attachments, new.attachments)
          /\ tpc = "set2" => new.attachments = old.attachments

DeleteTaskReturns(c) ==
  /\ calls[c].tool = "delete_task" /\ calls[c].pc = "rm"
  /\ calls'[c].pc = "done" /\ calls'[c].result.kind = "return"

\* The step in which execution c's delete_all_tasks returns, no other
\* execution having started before it.
DeleteAllReturnsAlone(c) ==
  /\ calls'[c].tool = "delete_all_tasks"
  /\ calls[c].pc \in {"idle", "rmall"}
  /\ calls'[c].pc = "done" /\ calls'[c].result.kind = "return"
  /\ \A d \in Slots \ {c} : calls'[d].pc = "idle"

\* delete_all_tasks, run without concurrent writers: the listing it walks is
\* the store at its start, each step removes the next listed task, and it
\* returns with the store empty and deleted_count = the number of tasks the
\* store held when it started.
C28_DeleteAllStep ==
  \A c \in Slots :
    /\ (calls[c].pc = "idle" /\ calls'[c].tool = "delete_all_tasks"
          /\ \A d \in Slots \ {c} : calls'[d].pc = "idle")
         => /\ store' = store
            /\ Len(calls'[c].all) = Cardinality(DOMAIN store)
            /\ {calls'[c].all[i].id : i \in 1..Len(calls'[c].all)} = DOMAIN store
    /\ (calls[c].tool = "delete_all_tasks" /\ calls[c].pc = "rmall")
         => calls'[c].all = calls[c].all
    /\ DeleteAllReturnsAlone(c)
         => /\ store' = <<>>
            /\ calls'[c].result.success
            /\ calls'[c].result.deleted = Len(calls'[c].all)

\* C28 as stated: every delete_task that returns has removed exactly one
\* task, the one it matched, and left every other task unchanged; and
\* delete_all_tasks run without concurrent writers leaves the store empty and
\* reports the number of tasks present when it started.
C28_Step_exactlyOne ==
  /\ \A c \in Slots :
       DeleteTaskReturns(c)
         => /\ DOMAIN store \ DOMAIN store' = {calls[c].match.id}
            /\ \A id \in DOMAIN store' : id \in DOMAIN store /\ store'[id] = store[id]
  /\ C28_DeleteAllStep

C28_Step ==
  /\ \A c \in Slots :
       DeleteTaskReturns(c)
         => /\ DOMAIN store' = DOMAIN store \ {calls[c].match.id}
            /\ \A id \in DOMAIN store' : store'[id] = store[id]
            /\ calls[c].match.id \in DOMAIN store
                 => Cardinality(DOMAIN store') = Cardinality(DOMAIN store) - 1
            /\ calls'[c].result.success /\ calls'[c].result.deleted = 1
  /\ C28_DeleteAllStep

TargetId(c) ==
  IF calls[c].tool \in {"update_task", "delete_task"} THEN calls[c].match.id ELSE calls[c].id

\* C29: updateTask on an id that is not in the store returns null and leaves
\* the store unchanged, writing no record for that id: PATCH /api/tasks/[id]
\* then answers 404 and update_task returns task: null; an execution reaches
\* its store.set only with the task its store.get returned. deleteTask on an
\* absent id changes nothing and the caller reports success.
C29_Step ==
  \A c \in Slots :
    /\ (calls[c].pc = "idle" /\ calls'[c].tool = "PATCH" /\ calls'[c].id \notin DOMAIN store)
         => /\ store' = store
            /\ calls'[c].pc = "done"
            /\ calls'[c].result.kind = "http" /\ calls'[c].result.status = 404
            /\ calls'[c].result.task = Null /\ ~calls'[c].result.success
    /\ (calls[c].tool = "update_task" /\ calls[c].pc = "get" /\ calls'[c] # calls[c]
          /\ TargetId(c) \notin DOMAIN store)
         => /\ store' = store
            /\ calls'[c].pc = "done"
            /\ calls'[c].result.kind = "return" /\ calls'[c].result.task = Null
    /\ (calls'[c].pc \in {"pset", "set"} /\ calls'[c] # calls[c])
         => /\ calls'[c].existing # Null
            /\ calls'[c].existing.id \in DOMAIN store
            /\ calls'[c].existing = store[calls'[c].existing.id]
    /\ (calls[c].pc = "idle" /\ calls'[c].tool = "DELETE" /\ calls'[c].id \notin DOMAIN store
          /\ calls'[c].result.kind # "throw")
         => /\ store' = store
            /\ calls'[c].result.kind = "http" /\ calls'[c].result.status = 200
            /\ calls'[c].result.success
    /\ (calls[c].tool = "delete_task" /\ calls[c].pc = "rm" /\ calls'[c].pc = "done"
          /\ calls'[c].result.kind = "return" /\ TargetId(c) \notin DOMAIN store)
         => store' = store /\ calls'[c].result.success

C29_AbsentId == [][C29_Step]_vars

\* With only "Pet" (id 1) stored, PATCH /api/tasks/2 has answered 404 and
\* DELETE /api/tasks/2 has answered success, and the store is as it was.
C29_Witness ==
  \E c, d \in Slots :
    /\ calls[c].tool = "PATCH" /\ calls[c].pc = "done" /\ calls[c].id = 2
    /\ calls[c].result.status = 404
    /\ calls[d].tool = "DELETE" /\ calls[d].pc = "done" /\ calls[d].id = 2
    /\ calls[d].result.kind = "http" /\ calls[d].result.success
    /\ store = (1 :> PetTask)


(***************************************************************************)
(* Properties of the model selection (SpecLoop)                            *)
(***************************************************************************)

AllowList == {ALLOWED_MODELS[i] : i \in 1..Len(ALLOWED_MODELS)}

====
